---- MODULE Spec2Model ----
(***************************************************************************)
(* State-machine model of the AutonomousWebAgent orchestrator              *)
(* (processUserRequest / executeWorkflow / executeStep / observe /         *)
(* handleStepFailure / reorientAgent / completeTask / stop) together with  *)
(* its DOM observation cache.                                              *)
(*                                                                         *)
(* Every await of the JavaScript code is a point where the agent's         *)
(* coroutine is suspended; the model has one program counter value per     *)
(* suspension point and one action per continuation.  The Decision         *)
(* Backend, the page and the clock are the environment: their answers are  *)
(* drawn from small sets with \E.                                          *)
(***************************************************************************)
EXTENDS Integers, Sequences, FiniteSets, TLC

(***************************************************************************)
(* Bounds of the model.                                                    *)
(***************************************************************************)
MaxPlanLen == 2      \* longest plan the backend answers with
MaxCount   == 4      \* cap on a retry counter (the code has none)
MaxTasks   == 2      \* number of processUserRequest calls in one behaviour
MaxTime    == 22500  \* the clock stops advancing here (milliseconds)
MaxObj     == 6      \* pool of identities for element-list objects
MaxRetriesOption == 4  \* largest options.retries passed to query()
MaxCandidates == 3   \* longest list of model candidates
MaxErrors  == 4      \* failures handed to the ErrorHandler in one behaviour
MaxAttempt == 6      \* largest attempt number handed to determineRecoveryStrategy
TickMs     == 7500   \* granularity of the modelled clock: half a TTL
MaxPrompts == 3      \* calls of promptUser in one behaviour
MaxTimeoutTicks == 2 \* largest options.timeout, in ticks of the timer clock
UiTickMs   == 30000  \* granularity of the timer clock (milliseconds)
MaxCalls   == 2      \* PROCESS_COMMAND messages in one behaviour
MaxFailures == 3     \* failed step attempts in one behaviour of the listener
MaxElems   == 3      \* elements of a page besides <html> and <body>
MaxElapsed == 1000   \* milliseconds after which no further poll is followed

(***************************************************************************)
(* Program constants.                                                      *)
(***************************************************************************)
maxRetries  == 3
domCacheTtl == 15000
defaultTimeout == 60000

(***************************************************************************)
(* The environment's vocabulary.                                           *)
(***************************************************************************)
\* What getActiveTabUrl().catch(() => '') answers: the address of the active
\* tab, or '' when the tab query fails.
Urls == {"", "u1", "u2"}

\* A page's markup is a sequence of tokens: single characters, and "S" for
\* one whole <script>...</script> block.
Pages == { <<"a">>, <<"S", "a", " ">>, <<"b">> }

RecoveryActions == {"retry_step", "skip_step", "new_plan", "other"}

\* A plan is the sequence of its step ids 1..n
Plans == { [i \in 1..n |-> i] : n \in 0..MaxPlanLen }

Keys == {"k1"}

(***************************************************************************)
(* normalizeHtmlForHash and computeContentDigest.                          *)
(***************************************************************************)
IsDigit(c) == c \in {"0", "1", "2", "3", "4", "5", "6", "7", "8", "9"}

IsSpace(c) == c = " "

\* .replace(/<script[\s\S]*?<\/script>/gi, '')
StripScripts(html) == SelectSeq(html, LAMBDA c : c # "S")

\* length of the run of digits that starts at position i
RECURSIVE DigitRun(_, _)
DigitRun(s, i) ==
    IF i > Len(s) \/ ~IsDigit(s[i]) THEN 0 ELSE 1 + DigitRun(s, i + 1)

\* .replace(/\d{4,}/g, '')
RECURSIVE StripLongNumbers(_, _)
StripLongNumbers(s, i) ==
    IF i > Len(s) THEN <<>>
    ELSE LET run == DigitRun(s, i)
         IN IF run >= 4 THEN StripLongNumbers(s, i + run)
            ELSE IF run > 0
                 THEN SubSeq(s, i, i + run - 1) \o StripLongNumbers(s, i + run)
                 ELSE <<s[i]>> \o StripLongNumbers(s, i + 1)

\* .replace(/\s+/g, ' ')
RECURSIVE CollapseWhitespace(_, _)
CollapseWhitespace(s, i) ==
    IF i > Len(s) THEN <<>>
    ELSE IF IsSpace(s[i]) /\ i > 1 /\ IsSpace(s[i - 1])
         THEN CollapseWhitespace(s, i + 1)
         ELSE <<s[i]>> \o CollapseWhitespace(s, i + 1)

\* .trim() of a string whose whitespace runs are already single blanks
Trim(s) ==
    LET a == IF Len(s) > 0 /\ IsSpace(s[1]) THEN 2 ELSE 1
        b == IF Len(s) > 0 /\ IsSpace(s[Len(s)]) THEN Len(s) - 1 ELSE Len(s)
    IN IF a > b THEN <<>> ELSE SubSeq(s, a, b)

normalizeHtmlForHash(html) ==
    IF html = <<>> THEN <<>>
    ELSE Trim(CollapseWhitespace(StripLongNumbers(StripScripts(html), 1), 1))

charCodeAt(c) ==
    CASE c = " " -> 32
      [] c = "a" -> 97
      [] c = "b" -> 98
      [] c = "S" -> 83
      [] IsDigit(c) -> 48
      [] OTHER -> 63

\* One round of hash = (hash * 31 + charCode) >>> 0.  The unsigned 32-bit
\* value is kept as its two 16-bit halves <<high, low>>.
HashRound(hash, code) ==
    LET low == hash[2] * 31 + code
    IN << (hash[1] * 31 + low \div 65536) % 65536, low % 65536 >>

RECURSIVE RollingHash(_, _)
RollingHash(s, n) ==
    IF n = 0 THEN <<0, 0>>
    ELSE HashRound(RollingHash(s, n - 1), charCodeAt(s[n]))

\* hash.toString(16) is represented by the 32-bit number it writes; '0'
\* (empty content) is the number 0, and every digest string is non-empty
computeContentDigest(content) ==
    LET sample == IF Len(content) > 5000 THEN SubSeq(content, 1, 5000)
                  ELSE content
    IN IF content = <<>> THEN <<0, 0>> ELSE RollingHash(sample, Len(sample))

\* htmlDigest: null
NullDigest == <<-1, -1>>

PageDigest(html) == computeContentDigest(normalizeHtmlForHash(html))

\* the digest of every page of the vocabulary, computed once
PageDigests == [html \in Pages |-> PageDigest(html)]

(***************************************************************************)
(* State.                                                                  *)
(***************************************************************************)
VARIABLES
    \* fields of the AutonomousWebAgent instance
    context,            \* [facts: keys merged by updateContext, lastUi: snapshot]
    originalGoal,       \* number of the task whose goal is stored, 0 for ''
    currentPlan,        \* sequence of step ids
    currentStepIndex,   \* 0-based index into currentPlan
    retryCount,         \* step index -> counter; an absent key reads as 0
    isExecuting,
    domCache,           \* [url, htmlDigest, elements, timestamp]
    errorHistory,       \* ErrorHandler.errorHistory
    \* the coroutine of processUserRequest
    pc,                 \* suspension point
    handler,            \* which call of handleStepFailure runs: "try" or "catch"
    result,             \* what the last processUserRequest returned
    error,              \* the error handed to handleStepFailure, "none" for null
    \* environment
    now,                \* Date.now()
    pageUrl,            \* what getActiveTabUrl() answers, '' when it fails
    pageHtml,           \* markup of the active tab
    taskNo,             \* processUserRequest calls so far
    \* history
    attempts,           \* executeStep calls for the current step since its last recovery
    finished,           \* step indices of the current plan that succeeded or were skipped
    stopRequested,      \* stop() was called since the running task began
    obs,                \* the last observe() call that returned
    \* one call of act(): AutonomousWebAgent.act and WebAutomation.executeAction
    action,             \* the Decision's action handed to act()
    actResult,          \* how the call ended and the tab messages it sent
    \* the VERIFY stage of one step attempt
    decision,           \* the type and the url parameter of the executed action
    tabUrl,             \* the address of the active tab after the action
    verification,       \* the verification and the backend queries made for it
    \* one call of GeminiService.query
    retries,            \* options.retries || this.maxRetries
    numCandidates,      \* this.modelCandidates.length
    candidate,          \* index of the candidate of the outer loop
    attempt,            \* attempt of the inner loop
    queryPc,            \* "idle", "request" in flight, "wait" of the backoff, "done"
    queryResult,        \* what query returned or threw
    requests,           \* makeRequest calls so far
    waits,              \* backoff waits so far
    signal,             \* how the last answered request ended
    model,              \* this.model: the index of the current model
    \* the last call of ErrorHandler.handleStepFailure
    geminiService,      \* whether this.agent.geminiService was set
    strategy,           \* what determineRecoveryStrategy returned
    recovery,           \* what executeRecoveryStrategy returned
    \* fields of the UserInteraction instance and its promises and timers
    timeout,            \* this.timeout, in ticks of the timer clock
    pendingRequests,    \* Map requestId -> timeoutId
    responseCallbacks,  \* Map requestId -> promise whose resolve/reject it holds
    promises,           \* promise n is the one promptUser returned at call n
    timers,             \* timer n is the one promptUser armed at call n
    uiLog,              \* what the last call of the instance logged
    \* the processUserRequest calls the background listener has started
    calls,              \* call c: [pc: the await it is suspended at, handler, result]
    failures,           \* failed step attempts so far
    \* the content script of the tab
    document,           \* the elements of the page in document order
    reference,          \* the argument of a resolveElement call
    resolved,           \* what the call returned
    command,            \* a command message sent to the tab
    response,           \* what the listener answered with sendResponse
    waiting,            \* the promise and the interval of handleWaitForElement
    \* WebAutomation: the command channel to the tab and the navigation
    channel,            \* one call of executeInTab
    navigation,         \* one call of goto
    \* DOMAnalyzer
    analyzed            \* the page data collected and the agent ids given

agentVars == <<context, originalGoal, currentPlan, currentStepIndex, retryCount,
               isExecuting, domCache, errorHistory>>
procVars  == <<pc, handler, result>>
envVars   == <<now, pageUrl, pageHtml, taskNo>>
histVars  == <<attempts, finished, stopRequested, obs>>
actVars   == <<action, actResult>>
verifyVars == <<decision, tabUrl, verification>>
queryVars == <<retries, numCandidates, candidate, attempt, queryPc, queryResult,
               requests, waits, signal, model>>
handlerVars == <<geminiService, strategy, recovery>>
uiVars    == <<timeout, pendingRequests, responseCallbacks, promises, timers,
               uiLog>>
bgVars    == <<calls, failures>>
tabVars   == <<channel, navigation>>
domVars   == <<document, reference, resolved, command, response, waiting,
               tabVars, analyzed>>
extVars   == <<uiVars, bgVars, domVars>>
svcVars   == <<actVars, verifyVars, queryVars, handlerVars, extVars>>
vars      == <<agentVars, procVars, error, envVars, histVars, svcVars>>

\* elements: null
NullElems == [obj |-> 0, task |-> 0]

\* context.lastUi: undefined
NoUi == [present |-> FALSE, url |-> "null", htmlDigest |-> NullDigest,
         elements |-> NullElems, timestamp |-> 0]

EmptyContext == [facts |-> {}, lastUi |-> NoUi]

\* no observe() call has returned yet
NoObs == [valid |-> FALSE, path |-> "none", url |-> "null",
          digest |-> NullDigest, time |-> 0, ret |-> NullElems, task |-> 0,
          urlMatch |-> FALSE, digestMatch |-> FALSE, fresh |-> FALSE,
          repeated |-> FALSE, sameList |-> FALSE]

\* the largest index the calls can leave in currentStepIndex
MaxIndex == MaxPlanLen + MaxCalls

\* this.retryCount = {}: every key reads as 0
NoRetries == [i \in 0..MaxIndex |-> 0]

\* the state the constructor leaves
AgentInit ==
    /\ context = EmptyContext
    /\ originalGoal = 0
    /\ currentPlan = <<>>
    /\ currentStepIndex = 0
    /\ retryCount = NoRetries
    /\ isExecuting = FALSE
    /\ domCache = [url |-> "null", htmlDigest |-> NullDigest, elements |-> NullElems,
                   timestamp |-> 0]
    /\ errorHistory = <<>>
    /\ pc = "idle"
    /\ handler = "try"
    /\ result = "none"
    /\ error = "none"
    /\ now = 0
    /\ pageUrl = "u1"
    /\ pageHtml = <<"a">>
    /\ taskNo = 0
    /\ attempts = 0
    /\ finished = {}
    /\ stopRequested = FALSE
    /\ obs = NoObs

\* no call of act() has been made
NoAction == [type |-> "", hasParameters |-> FALSE, parameters |-> {}]
NoActResult == [status |-> "none", kind |-> "none", sent |-> 0]

\* no address: a missing url parameter, '' from the tab query, null from
\* normalizeUrl
NoUrl == [scheme |-> "none", host |-> "none", marks |-> {}]

NoDecision == [type |-> "", url |-> NoUrl]

\* let verification; before the stage has run
NoVerification == [stage |-> "none", success |-> FALSE, autoVerified |-> FALSE,
                   backendCalls |-> 0]

\* no call of query() has been made
QueryInit ==
    /\ retries = 0
    /\ numCandidates = 0
    /\ candidate = 0
    /\ attempt = 0
    /\ queryPc = "idle"
    /\ queryResult = "none"
    /\ requests = 0
    /\ waits = 0
    /\ signal = "none"
    /\ model = 1

\* no call of ErrorHandler.handleStepFailure has been made
NoStrategy == [type |-> "none", backendCalls |-> 0, userQuestion |-> FALSE]

\* no question text
NoQuestion == [kind |-> "none", step |-> 0, error |-> {}, attempt |-> 0]

NoRecovery == [action |-> "none", question |-> FALSE, reorientFailed |-> FALSE,
               text |-> NoQuestion]

HandlerInit ==
    /\ geminiService = TRUE
    /\ strategy = NoStrategy
    /\ recovery = NoRecovery

\* a JavaScript value that is a reference: a string is the sequence of its
\* tokens; a number and undefined carry no text
Str(tokens) == [kind |-> "string", s |-> tokens]

NoReference == [kind |-> "undefined", s |-> <<>>]

\* a number other than 0
Number == [kind |-> "number", s |-> <<>>]

\* resolveElement has not been called, it threw, or it returned: el is the
\* position of the element in the document, 0 for null
NotCalled == [status |-> "none", el |-> 0]

NoMessage == [type |-> "none", selector |-> NoReference, agentId |-> NoReference,
              agent_id |-> NoReference, agentID |-> NoReference,
              text |-> NoReference, action |-> NoReference, hasValue |-> TRUE,
              hasAttribute |-> TRUE, hasParameters |-> TRUE,
              condition |-> "", timeout |-> 0]

NoResponse == [status |-> "none", error |-> "none", el |-> 0, popupFound |-> "absent"]

\* new UserInteraction(): no prompt has been made
UiInit ==
    /\ timeout = defaultTimeout
    /\ pendingRequests = [k \in {} |-> 0]
    /\ responseCallbacks = [k \in {} |-> 0]
    /\ promises = <<>>
    /\ timers = <<>>
    /\ uiLog = "none"

\* no PROCESS_COMMAND message has arrived
BgInit ==
    /\ calls = <<>>
    /\ failures = 0

\* handleWaitForElement has not been called
NotWaiting == [state |-> "idle", error |-> "none", elapsed |-> 0,
               interval |-> "none", uncaught |-> FALSE]

\* executeInTab has not been called
NoChannel == [pc |-> "idle", retries |-> 0, attempt |-> 0, sent |-> 0,
              waits |-> 0, tab |-> "none", result |-> "none",
              error |-> "none", reply |-> "none"]

\* goto has not been called
NoNavigation == [pc |-> "idle", url |-> NoUrl, path |-> "none",
                 addressChanged |-> FALSE, loadComplete |-> "none",
                 scriptReady |-> "none", result |-> "none", error |-> "none"]

\* no page data has been asked for
NotAnalyzed == [state |-> "none", elements |-> <<>>, ids |-> <<>>, picked |-> 0]

TabInit ==
    /\ channel = NoChannel
    /\ navigation = NoNavigation
    /\ analyzed = NotAnalyzed

\* no command has reached the content script
DomInit ==
    /\ document = <<>>
    /\ reference = NoReference
    /\ resolved = NotCalled
    /\ command = NoMessage
    /\ response = NoResponse
    /\ waiting = NotWaiting
    /\ TabInit

ExtInit ==
    /\ UiInit
    /\ BgInit
    /\ DomInit

\* the services of the agent before any call
AgentSvcInit ==
    /\ action = NoAction
    /\ actResult = NoActResult
    /\ decision = NoDecision
    /\ tabUrl = NoUrl
    /\ verification = NoVerification
    /\ QueryInit
    /\ HandlerInit

SvcInit ==
    /\ AgentSvcInit
    /\ ExtInit

Init == AgentInit /\ SvcInit

(***************************************************************************)
(* The DOM observation cache.                                              *)
(***************************************************************************)
shouldReuseDomCache(url, digest) ==
    IF domCache.elements = NullElems THEN FALSE
    ELSE LET isSameUrl    == url # "" /\ domCache.url = url
             isSameDigest == domCache.htmlDigest = digest
             isFresh      == now - domCache.timestamp <= domCacheTtl
         IN isSameUrl /\ isSameDigest /\ isFresh

\* identities held by some reference to an element list
UsedObjs == {domCache.elements.obj, context.lastUi.elements.obj,
             obs.ret.obj}

\* the identity a newly allocated list gets
NewObj(used) == CHOOSE i \in 1..MaxObj :
                    /\ i \notin used
                    /\ \A j \in 1..MaxObj : j \notin used => i <= j

\* the cache entry and the context snapshot updateDomCache stores for a list:
\* domCache keeps the list itself, context.lastUi keeps a copy [...elements]
updateDomCache(url, digest, elements) ==
    [domCache |-> [url |-> url, htmlDigest |-> digest, elements |-> elements,
                   timestamp |-> now],
     lastUi   |-> [present |-> TRUE, url |-> url, htmlDigest |-> digest,
                   elements |-> [elements EXCEPT
                                   !.obj = NewObj(UsedObjs \cup {elements.obj})],
                   timestamp |-> now]]

\* age <= this.domCacheTtl
SnapshotIsFresh(age) == age <= domCacheTtl

\* the first shortcut of observe(): the snapshot kept in the context
ReuseContextSnapshot(url) ==
    /\ context.lastUi.present
    /\ context.lastUi.url = url
    /\ SnapshotIsFresh(now - context.lastUi.timestamp)
    /\ context.lastUi.elements # NullElems

\* What one call of observe() does when the tab query answers url and the
\* extraction goes the way `how` says: "local" (DOMAnalyzer finds elements),
\* "gemini" (it finds none, the backend answers a list), "htmlThrow"
\* (getCurrentPageHTML fails), "geminiThrow" (both extractions fail).
ObserveOutcome(url, how) ==
    LET digest == PageDigests[pageHtml]
        fresh  == [obj |-> NewObj(UsedObjs), task |-> taskNo]
        upd    == updateDomCache(url, digest, fresh)
        keep   == [threw |-> FALSE, path |-> "none", ret |-> NullElems,
                   domCache |-> domCache, lastUi |-> context.lastUi,
                   urlMatch |-> FALSE, digestMatch |-> FALSE, fresh |-> FALSE]
    IN IF ReuseContextSnapshot(url)
       THEN [keep EXCEPT !.path = "lastUi", !.ret = context.lastUi.elements,
                         !.urlMatch = (context.lastUi.url = url),
                         !.digestMatch = (context.lastUi.htmlDigest = digest),
                         !.fresh = (now - context.lastUi.timestamp <= domCacheTtl)]
       ELSE IF how = "htmlThrow"
       THEN [keep EXCEPT !.threw = TRUE]
       ELSE IF shouldReuseDomCache(url, digest)
       THEN [keep EXCEPT !.path = "domCache", !.ret = domCache.elements,
                         !.urlMatch = (domCache.url = url),
                         !.digestMatch = (domCache.htmlDigest = digest),
                         !.fresh = (now - domCache.timestamp <= domCacheTtl)]
       ELSE IF how \in {"local", "gemini"}
       THEN [keep EXCEPT !.path = "extract", !.ret = fresh,
                         !.domCache = upd.domCache, !.lastUi = upd.lastUi]
       ELSE [keep EXCEPT !.threw = TRUE]

\* observe() as a step of the agent: the cache, the context snapshot and the
\* record of the call.  repeated: the previous call saw the same address and
\* the same digest no longer than the TTL ago; sameList: this call returned
\* the very list object the previous call returned.
observe(url, how) ==
    LET o == ObserveOutcome(url, how)
        d == PageDigests[pageHtml]
    IN /\ ~o.threw
       /\ domCache' = o.domCache
       /\ context' = [context EXCEPT !.lastUi = o.lastUi]
       /\ obs' = [valid |-> TRUE, path |-> o.path, url |-> url, digest |-> d,
                  time |-> now, ret |-> o.ret, task |-> taskNo,
                  urlMatch |-> o.urlMatch, digestMatch |-> o.digestMatch,
                  fresh |-> o.fresh,
                  repeated |-> /\ obs.valid
                               /\ obs.url = url
                               /\ obs.digest = d
                               /\ now - obs.time <= domCacheTtl,
                  sameList |-> obs.valid /\ obs.ret.obj = o.ret.obj]

ObserveThrows(url, how) == ObserveOutcome(url, how).threw

(***************************************************************************)
(* processUserRequest: triage, simple answers, planning.                   *)
(***************************************************************************)
\* the catch block of processUserRequest: { success: false, error }
ReturnError ==
    /\ pc' = "idle"
    /\ result' = "error"

\* a PROCESS_COMMAND message reaches the agent: triageTask's query is sent
processUserRequest ==
    /\ pc = "idle"
    /\ taskNo < MaxTasks
    /\ taskNo' = taskNo + 1
    /\ pc' = "triage"
    /\ result' = "none"
    /\ stopRequested' = FALSE
    /\ UNCHANGED <<agentVars, handler, now, pageUrl, pageHtml, attempts,
                   finished, obs>>
    /\ UNCHANGED <<error, svcVars>>

\* the triage query answers; an agentic task initialises the task state and
\* sends the planning query, a simple query sends the answer query
triageTask ==
    /\ pc = "triage"
    /\ \E task_type \in {"simple_query", "agentic_task"} :
         IF task_type = "simple_query"
         THEN /\ pc' = "simple"
              /\ UNCHANGED <<agentVars, attempts, finished>>
         ELSE /\ originalGoal' = taskNo
              /\ context' = EmptyContext
              /\ currentStepIndex' = 0
              /\ retryCount' = NoRetries
              /\ pc' = "planning"
              /\ attempts' = 0
              /\ finished' = {}
              /\ UNCHANGED <<currentPlan, isExecuting, domCache,
                             errorHistory>>
    /\ UNCHANGED <<handler, result, envVars, stopRequested, obs>>
    /\ UNCHANGED <<error, svcVars>>

\* a simple answer that starts from an empty memory
handleSimpleQueryClearsContext ==
    /\ pc = "simple"
    /\ pc' = "idle"
    /\ result' = "simple_answer"
    /\ context' = EmptyContext
    /\ UNCHANGED <<originalGoal, currentPlan, currentStepIndex, retryCount,
                   isExecuting, domCache, errorHistory, handler, envVars,
                   histVars>>
    /\ UNCHANGED <<error, svcVars>>

\* the answer query returns: { success: true, type: 'simple_answer', ... }
handleSimpleQuery ==
    /\ pc = "simple"
    /\ pc' = "idle"
    /\ result' = "simple_answer"
    /\ UNCHANGED <<agentVars, handler, envVars, histVars>>
    /\ UNCHANGED <<error, svcVars>>

\* the planning query answers: the plan is stored and executeWorkflow raises
\* the executing flag
generateHighLevelPlan ==
    /\ pc = "planning"
    /\ \E plan \in Plans : currentPlan' = plan
    /\ isExecuting' = TRUE
    /\ pc' = "loop"
    /\ UNCHANGED <<context, originalGoal, currentStepIndex, retryCount, domCache, errorHistory, handler, result,
                   envVars, histVars>>
    /\ UNCHANGED <<error, svcVars>>

\* a backend query of triage, of the simple answer or of planning fails
processUserRequestCatch ==
    /\ pc \in {"triage", "simple", "planning"}
    /\ ReturnError
    /\ UNCHANGED <<agentVars, handler, envVars, histVars>>
    /\ UNCHANGED <<error, svcVars>>

(***************************************************************************)
(* act(): parameter validation and the dispatch to WebAutomation.          *)
(***************************************************************************)
\* the action vocabulary, an action type outside it, and '' for a missing type
ActionTypes == {"goto", "click", "type", "search", "select", "scroll", "hover",
                "wait_for_element", "handle_popup", "get_text",
                "get_attribute"}

OtherTypes == {"take_screenshot", "unknown", ""}

\* the parameters of an action that carry a truthy value
ParamNames == {"selector", "agent_id", "agentId", "text", "value", "url",
               "query", "option", "attribute"}

\* WebAutomation.maxRetries: the attempts of one executeInTab call
automationRetries == 3

\* what enrichActionParameters can leave: a selector resolved from the agent
\* id, or an agent id resolved from the selector, when the DOM cache has the
\* element; the parameters as they are otherwise
enrichActionParameters(P) ==
    {P}
    \cup (IF "selector" \notin P /\ P \cap {"agent_id", "agentId"} # {}
          THEN {P \cup {"selector"}} ELSE {})
    \cup (IF "selector" \in P /\ P \cap {"agent_id", "agentId"} = {}
          THEN {P \cup {"agent_id"}} ELSE {})

\* validateActionParameters: TRUE when it throws
validateActionParameters(type, P) ==
    CASE type = "goto" -> "url" \notin P
      [] type = "click" -> P \cap {"selector", "agent_id", "text"} = {}
      [] type = "type" -> \/ P \cap {"selector", "agent_id"} = {}
                          \/ P \cap {"value", "text"} = {}
      [] type = "search" -> \/ P \cap {"selector", "agent_id"} = {}
                            \/ P \cap {"value", "text", "query"} = {}
      [] type = "select" -> \/ P \cap {"selector", "agent_id"} = {}
                            \/ P \cap {"value", "option", "text"} = {}
      [] type \in {"hover", "wait_for_element"} ->
             P \cap {"selector", "agent_id"} = {}
      [] OTHER -> FALSE

\* params.selector || params.agent_id || params.agentId
HasTarget(P) == P \cap {"selector", "agent_id", "agentId"} # {}

\* a get_attribute that asks only for the element
ExecutorRejectsNoAttribute(type, P) ==
    CASE type = "goto" -> "url" \notin P
      [] type = "click" -> ~HasTarget(P) /\ "text" \notin P
      [] type \in {"type", "search"} -> ~HasTarget(P)
      [] type = "select" -> ~HasTarget(P) \/ P \cap {"value", "option", "text"} = {}
      [] type \in {"hover", "wait_for_element", "get_text"} -> ~HasTarget(P)
      [] type = "get_attribute" -> ~HasTarget(P)
      [] OTHER -> FALSE

\* the checks the WebAutomation methods make before they build a command:
\* TRUE when the method throws without calling executeInTab
ExecutorRejects(type, P) ==
    CASE type = "goto" -> "url" \notin P
      [] type = "click" -> ~HasTarget(P) /\ "text" \notin P
      [] type \in {"type", "search"} -> ~HasTarget(P)
      [] type = "select" -> ~HasTarget(P) \/ P \cap {"value", "option", "text"} = {}
      [] type \in {"hover", "wait_for_element", "get_text"} -> ~HasTarget(P)
      [] type = "get_attribute" -> ~HasTarget(P) \/ "attribute" \notin P
      [] OTHER -> FALSE

\* executeInTab: the messages sent to the tab and whether one was answered
\* with success; no message at all when there is no active tab
executeInTab ==
    { [status |-> "ok", kind |-> "none", sent |-> n] : n \in 1..automationRetries }
    \cup { [status |-> "error", kind |-> "command_failed", sent |-> n] :
              n \in {0, automationRetries} }

\* WebAutomation.executeAction
executeAction(type, P) ==
    IF type = "unknown"
    THEN { [status |-> "error", kind |-> "unsupported_action", sent |-> 0] }
    ELSE IF type = "take_screenshot"
    THEN { [status |-> "ok", kind |-> "none", sent |-> 0],
           [status |-> "error", kind |-> "command_failed", sent |-> 0] }
    ELSE IF ExecutorRejects(type, P)
    THEN { [status |-> "error", kind |-> "invalid_parameters", sent |-> 0] }
    ELSE executeInTab

\* the outcomes of act(action)
ActOutcomes(a) ==
    IF a.type = ""
    THEN { [status |-> "error", kind |-> "invalid_action", sent |-> 0] }
    ELSE IF ~a.hasParameters
    THEN { [status |-> "error", kind |-> "invalid_parameters", sent |-> 0] }
    ELSE UNION { IF validateActionParameters(a.type, P)
                 THEN { [status |-> "error", kind |-> "invalid_parameters",
                         sent |-> 0] }
                 ELSE executeAction(a.type, P)
                 : P \in enrichActionParameters(a.parameters) }

\* every action the Decision Backend can answer
Actions ==
    { [type |-> type, hasParameters |-> TRUE, parameters |-> P] :
         type \in ActionTypes \cup OtherTypes, P \in SUBSET ParamNames }
    \cup { [type |-> type, hasParameters |-> FALSE, parameters |-> {}] :
               type \in ActionTypes }

act ==
    /\ action # NoAction
    /\ actResult.status = "none"
    /\ \E r \in ActOutcomes(action) : actResult' = r
    /\ UNCHANGED <<agentVars, procVars, error, envVars, histVars, action,
                   verifyVars, queryVars, handlerVars, extVars>>

\* ActSpec: one call of act() for every action
ActInit ==
    /\ AgentInit
    /\ action \in Actions
    /\ actResult = NoActResult
    /\ decision = NoDecision
    /\ tabUrl = NoUrl
    /\ verification = NoVerification
    /\ QueryInit
    /\ HandlerInit
    /\ ExtInit

NextAct == act

ActSpec == ActInit /\ [][NextAct]_vars

(***************************************************************************)
(* The VERIFY stage of executeStep: canAutoVerify, autoVerifyNavigation    *)
(* and verify().                                                           *)
(***************************************************************************)
\* An address is its scheme prefix ('' when the text has none), its host and
\* the marks its text contains: the substrings verify() looks for.
SearchMarks == {"search", "query", "q="}

VideoMarks == {"/watch", "video", "v="}

Hosts == {"example.com", "httpbin.org", "other.org"}

\* the hosts whose text begins with the letters http
HttpLikeHosts == {"httpbin.org"}

\* what a goto's url parameter can hold
TargetUrls == { [scheme |-> s, host |-> h, marks |-> {}] :
                   s \in {"", "http://", "https://"}, h \in Hosts }

\* what getActiveTabUrl().catch(() => '') answers after the action; NoUrl is ''
TabUrls == { [scheme |-> s, host |-> h, marks |-> m] :
                s \in {"http://", "https://"}, h \in Hosts,
                m \in { {} } \cup { {x} : x \in SearchMarks \cup VideoMarks }
                      \cup { {"search", "/watch"} } } \cup {NoUrl}

\* url.startsWith('http')
StartsWithHttp(u) == u.scheme # "" \/ u.host \in HttpLikeHosts

\* normalizeUrl: the parsed URL, NoUrl for null; new URL() throws on a text
\* without a scheme
normalizeUrl(u) ==
    IF u = NoUrl THEN NoUrl
    ELSE LET prefixed == IF StartsWithHttp(u) THEN u
                         ELSE [u EXCEPT !.scheme = "https://"]
         IN IF prefixed.scheme = "" THEN NoUrl ELSE prefixed

\* canAutoVerify: a goto with a url
canAutoVerify(d) == d.type = "goto" /\ d.url # NoUrl

\* autoVerifyNavigation: TRUE when it returns the success record, FALSE for null
autoVerifyNavigation(d, tab) ==
    LET targetUrl       == normalizeUrl(d.url)
        resolvedCurrent == normalizeUrl(tab)
    IN /\ tab # NoUrl
       /\ targetUrl # NoUrl
       /\ resolvedCurrent # NoUrl
       /\ resolvedCurrent.host = targetUrl.host

\* every decision whose action act() has carried out
Decisions ==
    { [type |-> "goto", url |-> u] : u \in TargetUrls }
    \cup { [type |-> t, url |-> NoUrl] : t \in ActionTypes \ {"goto"} }

\* lines 952-956: the automatic verification of a navigation
executeStepAutoVerify ==
    /\ verification.stage = "none"
    /\ verification' =
         IF canAutoVerify(decision) /\ autoVerifyNavigation(decision, tabUrl)
         THEN [stage |-> "done", success |-> TRUE, autoVerified |-> TRUE,
               backendCalls |-> 0]
         ELSE [verification EXCEPT !.stage = "verify"]
    /\ UNCHANGED <<agentVars, procVars, error, envVars, histVars, actVars,
                   decision, tabUrl, queryVars, handlerVars, extVars>>

\* currentUrl.includes(text) for one of the texts verify() looks for
urlIncludes(url, text) == text \in url.marks

\* the test of verify() after a search or a type
searchExecuted(d, currentUrl) ==
    /\ d.type \in {"search", "type"}
    /\ \E text \in SearchMarks : urlIncludes(currentUrl, text)

\* a test of the address that applies to no action type
videoClickedNever(d, currentUrl) == FALSE

\* the test of verify() after a click
videoClicked(d, currentUrl) ==
    /\ d.type = "click"
    /\ \E text \in VideoMarks : urlIncludes(currentUrl, text)

\* lines 958-960: verify(); after a search, type or click the address alone
\* can answer, otherwise the Decision Backend is asked and its judgment is
\* the verification
verify ==
    /\ verification.stage = "verify"
    /\ IF searchExecuted(decision, tabUrl) \/ videoClicked(decision, tabUrl)
       THEN verification' = [stage |-> "done", success |-> TRUE,
                             autoVerified |-> FALSE, backendCalls |-> 0]
       ELSE \E success \in BOOLEAN :
                verification' = [stage |-> "done", success |-> success,
                                 autoVerified |-> FALSE, backendCalls |-> 1]
    /\ UNCHANGED <<agentVars, procVars, error, envVars, histVars, actVars,
                   decision, tabUrl, queryVars, handlerVars, extVars>>

\* VerifySpec: the VERIFY stage for every decision and every address the tab
\* can show afterwards
VerifyInit ==
    /\ AgentInit
    /\ action = NoAction
    /\ actResult = NoActResult
    /\ decision \in Decisions
    /\ tabUrl \in TabUrls
    /\ verification = NoVerification
    /\ QueryInit
    /\ HandlerInit
    /\ ExtInit

NextVerify == executeStepAutoVerify \/ verify

VerifySpec == VerifyInit /\ [][NextVerify]_vars

(***************************************************************************)
(* GeminiService.query: the candidates, the attempts and the backoff.      *)
(***************************************************************************)
\* this.maxRetries of GeminiService
geminiMaxRetries == 3

\* what one request ends with: a response that parses, a 404 naming the
\* model, a 503, any other failure of the request, or a response that
\* parseResponse rejects (malformed JSON after fixJsonResponse, a SAFETY
\* finish, no text)
Signals == {"ok", "not_found", "service_unavailable", "other_error",
            "malformed"}

\* an error that is never taken for a missing model
isModelNotFoundNever(sig) == FALSE

\* isModelNotFound(error)
isModelNotFound(sig) == sig = "not_found"

\* an error that is never taken for a 503
isServiceUnavailableNever(sig) == FALSE

\* /\b503\b/.test(error.message)
isServiceUnavailable(sig) == sig = "service_unavailable"

\* query(prompt, options): retries = options.retries || this.maxRetries, the
\* first request goes to the first candidate
query ==
    /\ queryPc = "idle"
    /\ \E r \in {0} \cup 1..MaxRetriesOption, n \in 2..MaxCandidates :
         /\ retries' = IF r = 0 THEN geminiMaxRetries ELSE r
         /\ numCandidates' = n
    /\ candidate' = 1
    /\ attempt' = 1
    /\ queryPc' = "request"
    /\ requests' = 1
    /\ UNCHANGED <<queryResult, waits, signal, model>>
    /\ UNCHANGED <<agentVars, procVars, error, envVars, histVars, actVars,
                   verifyVars, handlerVars, extVars>>

\* break: the inner loop is left; the next candidate gets its first request,
\* and after the last candidate the models-unavailable error is thrown
NextCandidate ==
    IF candidate < numCandidates
    THEN /\ candidate' = candidate + 1
         /\ attempt' = 1
         /\ queryPc' = "request"
         /\ requests' = requests + 1
         /\ UNCHANGED queryResult
    ELSE /\ queryPc' = "done"
         /\ queryResult' = "models_unavailable"
         /\ UNCHANGED <<candidate, attempt, requests>>

\* the catch block of the inner loop
QueryCatch(sig) ==
    /\ signal' = sig
    /\ IF isModelNotFound(sig)
       THEN NextCandidate
       ELSE IF attempt = retries
       THEN IF isServiceUnavailable(sig)
            THEN NextCandidate
            ELSE /\ queryPc' = "done"
                 /\ queryResult' = "failed_after_retries"
                 /\ UNCHANGED <<candidate, attempt, requests>>
       ELSE /\ queryPc' = "wait"
            /\ UNCHANGED <<candidate, attempt, requests, queryResult>>
    /\ UNCHANGED <<retries, numCandidates, waits>>
    /\ UNCHANGED <<agentVars, procVars, error, envVars, histVars, actVars,
                   verifyVars, handlerVars, extVars>>

\* a successful request that leaves this.model as it was
makeRequestKeepsModel ==
    /\ queryPc = "request"
    /\ signal' = "ok"
    /\ queryPc' = "done"
    /\ queryResult' = "ok"
    /\ UNCHANGED <<retries, numCandidates, candidate, attempt, requests, waits,
                   model>>
    /\ UNCHANGED <<agentVars, procVars, error, envVars, histVars, actVars,
                   verifyVars, handlerVars, extVars>>

\* makeRequest resolves, this.model = candidate, and parseResponse returns
makeRequest ==
    /\ queryPc = "request"
    /\ signal' = "ok"
    /\ queryPc' = "done"
    /\ queryResult' = "ok"
    /\ model' = candidate
    /\ UNCHANGED <<retries, numCandidates, candidate, attempt, requests, waits>>
    /\ UNCHANGED <<agentVars, procVars, error, envVars, histVars, actVars,
                   verifyVars, handlerVars, extVars>>

\* makeRequest throws: the response is not ok
makeRequestThrows ==
    /\ queryPc = "request"
    /\ \E sig \in {"not_found", "service_unavailable", "other_error"} :
         QueryCatch(sig)
    /\ UNCHANGED model

\* makeRequest resolves, this.model = candidate, and parseResponse throws
\* inside the same try block
parseResponseThrows ==
    /\ queryPc = "request"
    /\ QueryCatch("malformed")
    /\ model' = candidate

\* await this.wait(Math.pow(2, attempt) * 1000) ends: the next attempt
wait ==
    /\ queryPc = "wait"
    /\ waits' = waits + 1
    /\ attempt' = attempt + 1
    /\ queryPc' = "request"
    /\ requests' = requests + 1
    /\ UNCHANGED <<retries, numCandidates, candidate, queryResult, signal, model>>
    /\ UNCHANGED <<agentVars, procVars, error, envVars, histVars, actVars,
                   verifyVars, handlerVars, extVars>>

\* QuerySpec: one call of query() with every outcome of every request
NextQuery ==
    \/ query
    \/ makeRequest
    \/ makeRequestThrows
    \/ parseResponseThrows
    \/ wait

QuerySpec == Init /\ [][NextQuery]_vars

\* every await of query() ends: the fetch is answered and the backoff timer
\* fires
QueryLiveSpec == QuerySpec /\ WF_vars(NextQuery)

(***************************************************************************)
(* ErrorHandler: the error history and the recovery strategies.            *)
(***************************************************************************)
\* this.recoveryStrategies
recoveryStrategies == {"retry_step", "alternative_action", "skip_step",
                       "reorient_agent", "ask_user_help"}

\* An error message is the set of the patterns its lower-case text contains.
ErrorPatterns == {"not found", "no such element", "timeout", "navigation",
                  "navigate", "permission", "access denied"}

\* the messages of the failures handed to the handler
ErrorMessages == { {}, {"permission"}, {"access denied"}, {"not found"} }

\* errorLower.includes(pattern)
includes(message, pattern) == pattern \in message

\* getAttemptCount(stepId)
getAttemptCount(stepId) ==
    Len(SelectSeq(errorHistory, LAMBDA err : err.step = stepId)) + 1

\* a plain retry for the first attempt only
SimpleRetryAttemptFirstOnly(a) == a <= 1

\* attempt <= 2 of determineRecoveryStrategy
SimpleRetryAttempt(a) == a <= 2

\* a table that has only its default rows
ruleBasedStrategyDeterminationDefault(message, a) ==
    IF a <= 2 THEN "retry_step"
    ELSE IF a <= 4 THEN "alternative_action"
    ELSE "ask_user_help"

\* ruleBasedStrategyDetermination(errorInfo)
ruleBasedStrategyDetermination(message, a) ==
    IF includes(message, "not found") \/ includes(message, "no such element")
    THEN IF a <= 3 THEN "reorient_agent" ELSE "ask_user_help"
    ELSE IF includes(message, "timeout")
    THEN IF a <= 2 THEN "retry_step" ELSE "skip_step"
    ELSE IF includes(message, "navigation") \/ includes(message, "navigate")
    THEN "reorient_agent"
    ELSE IF includes(message, "permission") \/ includes(message, "access denied")
    THEN "ask_user_help"
    ELSE IF a <= 2 THEN "retry_step"
    ELSE IF a <= 4 THEN "alternative_action"
    ELSE "ask_user_help"

\* what the backend answers to the strategy prompt: a strategy, a text that
\* names none, or a failure of the query
AiAnswers == recoveryStrategies \cup {"unknown", "throws"}

\* determineRecoveryStrategy(errorInfo): the strategy and the backend queries
\* made for it; gemini says whether this.agent.geminiService is set
\* userQuestion says whether the answer of the backend carries a user_question
determineRecoveryStrategy(message, a, gemini, answer, userQuestion) ==
    IF SimpleRetryAttempt(a)
    THEN [type |-> "retry_step", backendCalls |-> 0, userQuestion |-> FALSE]
    ELSE IF gemini
    THEN [type |-> IF answer = "throws"
                   THEN ruleBasedStrategyDetermination(message, a)
                   ELSE answer,
          backendCalls |-> 1,
          userQuestion |-> answer # "throws" /\ userQuestion]
    ELSE [type |-> ruleBasedStrategyDetermination(message, a),
          backendCalls |-> 0, userQuestion |-> FALSE]

\* a question without any text
generateUserQuestionEmpty(errorInfo) == NoQuestion

\* generateUserQuestion(errorInfo): the text names the step's description,
\* the error and the attempt count
generateUserQuestion(errorInfo) ==
    [kind |-> "generated", step |-> errorInfo.step, error |-> errorInfo.error,
     attempt |-> errorInfo.attempt]

\* askUserHelp(errorInfo, strategy)
askUserHelp(errorInfo, chosen) ==
    LET userQuestion == IF chosen.userQuestion
                        THEN [NoQuestion EXCEPT !.kind = "supplied"]
                        ELSE generateUserQuestion(errorInfo)
    IN [action |-> "ask_user", question |-> userQuestion # NoQuestion,
        reorientFailed |-> FALSE, text |-> userQuestion]

\* executeRecoveryStrategy(strategy, errorInfo): the result object, "throws"
\* for a strategy outside the list; reorientOk says whether reading the page
\* and the reorient call of the backend went through
executeRecoveryStrategy(chosen, errorInfo, reorientOk) ==
    LET type == chosen.type IN
    CASE type = "retry_step" -> [NoRecovery EXCEPT !.action = "retry"]
      [] type = "alternative_action" ->
             [NoRecovery EXCEPT !.action = "alternative"]
      [] type = "skip_step" -> [NoRecovery EXCEPT !.action = "skip"]
      [] type = "reorient_agent" ->
             IF reorientOk
             THEN [NoRecovery EXCEPT !.action = "reorient"]
             ELSE [NoRecovery EXCEPT !.action = "reorient_failed",
                                     !.reorientFailed = TRUE]
      [] type = "ask_user_help" -> askUserHelp(errorInfo, chosen)
      [] OTHER -> [NoRecovery EXCEPT !.action = "throws"]

\* ErrorHandler.handleStepFailure(step, error, context)
ErrorHandlerHandleStepFailure ==
    /\ Len(errorHistory) < MaxErrors
    /\ \E stepId \in 1..MaxPlanLen, message \in ErrorMessages,
          gemini \in BOOLEAN, answer \in AiAnswers, userQuestion \in BOOLEAN,
          reorientOk \in BOOLEAN :
         LET errorInfo == [step |-> stepId, error |-> message,
                           timestamp |-> now, context |-> context,
                           attempt |-> getAttemptCount(stepId)]
             chosen == determineRecoveryStrategy(message, errorInfo.attempt,
                                                 gemini, answer, userQuestion)
         IN \* an input that the call does not read is left at one value
            /\ (SimpleRetryAttempt(errorInfo.attempt) \/ ~gemini)
                  => answer = "throws"
            /\ chosen.type # "reorient_agent" => reorientOk
            /\ userQuestion => (chosen.backendCalls = 1 /\ answer = "ask_user_help")
            /\ errorHistory' = Append(errorHistory, errorInfo)
            /\ strategy' = chosen
            /\ geminiService' = gemini
            /\ recovery' = executeRecoveryStrategy(chosen, errorInfo, reorientOk)
    /\ UNCHANGED <<context, originalGoal, currentPlan, currentStepIndex,
                   retryCount, isExecuting, domCache, procVars, error,
                   envVars, histVars, actVars, verifyVars, queryVars,
                   extVars>>

\* ErrorSpec: the failures of the steps handed to the handler one by one
NextError == ErrorHandlerHandleStepFailure

ErrorSpec == Init /\ [][NextError]_vars

\* one call of determineRecoveryStrategy(errorInfo) for every message, every
\* attempt number and every answer of the backend; queryResult is how the
\* query of aiDeterminedStrategy ended
determineRecoveryStrategyCall ==
    /\ strategy = NoStrategy
    /\ errorHistory = <<>>
    /\ \E message \in SUBSET ErrorPatterns, a \in 1..MaxAttempt,
          gemini \in BOOLEAN, answer \in AiAnswers :
         LET errorInfo == [step |-> 1, error |-> message, timestamp |-> now,
                           context |-> context, attempt |-> a]
             chosen == determineRecoveryStrategy(message, a, gemini, answer, FALSE)
         IN /\ (SimpleRetryAttempt(a) \/ ~gemini) => answer = "throws"
            /\ errorHistory' = <<errorInfo>>
            /\ strategy' = chosen
            /\ geminiService' = gemini
            /\ queryResult' = IF chosen.backendCalls = 0 THEN queryResult
                              ELSE IF answer = "throws" THEN "failed_after_retries"
                              ELSE "ok"
    /\ UNCHANGED <<context, originalGoal, currentPlan, currentStepIndex,
                   retryCount, isExecuting, domCache, procVars, error,
                   envVars, histVars, actVars, verifyVars, recovery, extVars,
                   retries, numCandidates, candidate, attempt, queryPc,
                   requests, waits, signal, model>>

NextStrategy == determineRecoveryStrategyCall

StrategySpec == Init /\ [][NextStrategy]_vars

(***************************************************************************)
(* UserInteraction: prompts, their promises and their timers.              *)
(***************************************************************************)
\* Map.set and Map.delete
MapSet(map, key, value) ==
    [k \in DOMAIN map \cup {key} |-> IF k = key THEN value ELSE map[k]]

MapDelete(map, key) == [k \in DOMAIN map \ {key} |-> map[k]]

MapValues(map) == {map[k] : k \in DOMAIN map}

\* new Map()
NewMap == [k \in {} |-> 0]

\* this.timeout = options.timeout || 60000
UserInteractionTimeout(optionsTimeout) ==
    IF optionsTimeout = 0 THEN defaultTimeout ELSE optionsTimeout

TimeoutOptions == {k * UiTickMs : k \in 0..MaxTimeoutTicks}

\* req_<Date.now()>_<random>: the n-th call gets an id no earlier call got
generateRequestId == Len(promises) + 1

\* new Promise(...)
NewPromise == [state |-> "pending", reason |-> "none"]

\* resolve and reject of a promise: a settled promise stays as it is
Settle(promise, state, reason) ==
    IF promise.state = "pending"
    THEN [state |-> state, reason |-> reason]
    ELSE promise

\* a timer that is never armed
setTimeoutUnarmed(delay) == [live |-> FALSE, remaining |-> delay]

\* setTimeout(callback, delay)
setTimeout(delay) == [live |-> TRUE, remaining |-> delay]

\* a clearTimeout that leaves every timer armed
clearTimeoutIgnored(ts, ids) == ts

\* clearTimeout(timeoutId)
clearTimeout(ts, ids) ==
    [n \in DOMAIN ts |-> IF n \in ids THEN [ts[n] EXCEPT !.live = FALSE]
                                      ELSE ts[n]]

getPendingRequestCount == Cardinality(DOMAIN pendingRequests)

\* promptUser(request) with request.timeout = this.timeout, as requestInput,
\* askForHelp, requestConfirmation and presentOptions call it
promptUser ==
    /\ Len(promises) < MaxPrompts
    /\ LET requestId == generateRequestId
       IN /\ responseCallbacks' = MapSet(responseCallbacks, requestId, requestId)
          /\ promises' = Append(promises, NewPromise)
          /\ timers' = Append(timers, setTimeout(timeout))
          /\ pendingRequests' = MapSet(pendingRequests, requestId, requestId)
          /\ uiLog' = "user_prompt"
    /\ UNCHANGED <<agentVars, procVars, error, envVars, histVars, actVars,
                   verifyVars, queryVars, handlerVars, bgVars, domVars, timeout>>

\* the callback promptUser handed to setTimeout, run by the event loop once
\* the delay of timer n has elapsed
timeoutCallback(n) ==
    /\ n \in DOMAIN timers
    /\ timers[n].live
    /\ timers[n].remaining = 0
    /\ LET requestId == n
       IN /\ responseCallbacks' = MapDelete(responseCallbacks, requestId)
          /\ promises' = [promises EXCEPT ![n] = Settle(@, "rejected", "timeout")]
    /\ timers' = [timers EXCEPT ![n].live = FALSE]
    /\ UNCHANGED <<agentVars, procVars, error, envVars, histVars, actVars,
                   verifyVars, queryVars, handlerVars, bgVars, domVars, timeout,
                   pendingRequests, uiLog>>

\* handleUserResponse(response); requestId 0 is a response without requestId
handleUserResponse(requestId) ==
    /\ IF requestId = 0 \/ requestId \notin DOMAIN responseCallbacks
       THEN /\ uiLog' = "unknown request"
            /\ UNCHANGED <<pendingRequests, responseCallbacks, promises, timers>>
       ELSE /\ IF requestId \in DOMAIN pendingRequests
               THEN /\ timers' = clearTimeout(timers, {pendingRequests[requestId]})
                    /\ pendingRequests' = MapDelete(pendingRequests, requestId)
               ELSE UNCHANGED <<timers, pendingRequests>>
            /\ promises' = [promises EXCEPT ![responseCallbacks[requestId]] =
                                Settle(@, "resolved", "response")]
            /\ responseCallbacks' = MapDelete(responseCallbacks, requestId)
            /\ uiLog' = "received"
    /\ UNCHANGED <<agentVars, procVars, error, envVars, histVars, actVars,
                   verifyVars, queryVars, handlerVars, bgVars, domVars, timeout>>

\* cleanup()
cleanup ==
    /\ timers' = clearTimeout(timers, MapValues(pendingRequests))
    /\ promises' = [n \in DOMAIN promises |->
                       IF n \in MapValues(responseCallbacks)
                       THEN Settle(promises[n], "rejected", "cleanup")
                       ELSE promises[n]]
    /\ pendingRequests' = NewMap
    /\ responseCallbacks' = NewMap
    /\ uiLog' = "cleaned up"
    /\ UNCHANGED <<agentVars, procVars, error, envVars, histVars, actVars,
                   verifyVars, queryVars, handlerVars, bgVars, domVars, timeout>>

\* the timer clock advances by one tick
UiTick ==
    /\ \E n \in DOMAIN timers : timers[n].live /\ timers[n].remaining > 0
    /\ timers' = [n \in DOMAIN timers |->
                     IF timers[n].live
                     THEN [timers[n] EXCEPT !.remaining =
                               IF @ > UiTickMs THEN @ - UiTickMs ELSE 0]
                     ELSE timers[n]]
    /\ UNCHANGED <<agentVars, procVars, error, envVars, histVars, actVars,
                   verifyVars, queryVars, handlerVars, bgVars, domVars, timeout,
                   pendingRequests, responseCallbacks, promises, uiLog>>

\* the event loop runs a due timer
TimerFires == \E n \in 1..MaxPrompts : timeoutCallback(n)

\* UiSpec: one UserInteraction instance for every options.timeout
UiSpecInit ==
    /\ AgentInit
    /\ AgentSvcInit
    /\ timeout \in {UserInteractionTimeout(o) : o \in TimeoutOptions}
    /\ pendingRequests = NewMap
    /\ responseCallbacks = NewMap
    /\ promises = <<>>
    /\ timers = <<>>
    /\ uiLog = "none"
    /\ BgInit
    /\ DomInit

NextUi ==
    \/ promptUser
    \/ \E requestId \in 0..MaxPrompts : handleUserResponse(requestId)
    \/ TimerFires
    \/ cleanup
    \/ UiTick

UiSpec == UiSpecInit /\ [][NextUi]_vars

\* the event loop keeps running: time passes and due timers fire
UiLiveSpec == UiSpec /\ WF_vars(UiTick) /\ WF_vars(TimerFires)

(***************************************************************************)
(* The content script: the document, references and resolveElement.        *)
(*                                                                         *)
(* A string is the sequence of its tokens.  A word is a run of lowercase   *)
(* letters, a number a run of digits; the other tokens are the pieces of   *)
(* text the resolver and the selector parser look for.                     *)
(***************************************************************************)
Words == {"a", "b", "div", "input", "text", "email", "zz", "html", "body",
          "modal"}

Numbers == {"0", "1", "2", "3", "4", "5"}

\* `${counter}`
numeral(n) == CASE n = 0 -> "0" [] n = 1 -> "1" [] n = 2 -> "2" [] n = 3 -> "3"
                [] n = 4 -> "4" [] OTHER -> "5"

\* parseInt
parseInt(n) == CASE n = "0" -> 0 [] n = "1" -> 1 [] n = "2" -> 2 [] n = "3" -> 3
                 [] n = "4" -> 4 [] OTHER -> 5

\* the attribute selector [name="a"], written with double quotes
AttrNameA == "[name=\"a\"]"

\* [a-z]+
IsWord(t) == t \in Words \cup {"id", "name"}

IsNumber(t) == t \in Numbers

\* tokens made of the characters of a CSS identifier
IsIdentToken(t) == IsWord(t) \/ IsNumber(t) \/ t \in {"_", "agent_id", "_video_"}

\* a CSS identifier: identifier characters, not starting with a digit
IsIdent(s) ==
    /\ s # <<>>
    /\ \A k \in DOMAIN s : IsIdentToken(s[k])
    /\ ~IsNumber(s[1])

\* an element: what the content script reads of it.  An attribute that
\* is absent is ""; type is el.type of an <input>; top and left are the
\* corner of getBoundingClientRect(); text is the text inside the element
Div == [tag |-> "div", id |-> "", name |-> "", agentId |-> "", class |-> "",
        type |-> "", visible |-> TRUE, top |-> 0, left |-> 0, text |-> "",
        href |-> "", disabled |-> FALSE]

\* document.documentElement and document.body are elements 1 and 2
documentElement == 1

body == 2

Html == [Div EXCEPT !.tag = "html"]

Body(class) == [Div EXCEPT !.tag = "body", !.class = class]

TextInput == [Div EXCEPT !.tag = "input", !.type = "text"]

Elements ==
    { TextInput,
      [TextInput EXCEPT !.top = 100],
      [TextInput EXCEPT !.visible = FALSE],
      [Div EXCEPT !.tag = "input", !.type = "email", !.id = "a"],
      [Div EXCEPT !.id = "b", !.class = "a", !.text = "t"],
      [Div EXCEPT !.tag = "a", !.name = "a", !.href = "/watch"],
      [Div EXCEPT !.agentId = "a", !.class = "modal"],
      [Div EXCEPT !.class = "modal-dialog", !.visible = FALSE] }

\* isVideoElement: a link to a /watch address
isVideoElement(el) == el.href = "/watch"

RECURSIVE ElementLists(_, _)
ElementLists(S, n) ==
    IF n = 0 THEN { <<>> }
    ELSE LET shorter == ElementLists(S, n - 1)
         IN shorter \cup { Append(l, e) : l \in { x \in shorter : Len(x) = n - 1 },
                                           e \in S }

\* the pages made of the elements of S
PagesOf(S) ==
    { <<Html, Body(class)>> \o l : class \in {"", "a"}, l \in ElementLists(S, MaxElems) }

Documents == PagesOf(Elements)

\* the first element of a set in document order, 0 (null) when it is empty
FirstOf(S) == IF S = {} THEN 0 ELSE CHOOSE i \in S : \A j \in S : i <= j

\* what a selector asks of an element; <<>> asks nothing
AnySelector == [valid |-> TRUE, tag |-> <<>>, id |-> <<>>, class |-> <<>>,
                name |-> <<>>]

InvalidSelector == [AnySelector EXCEPT !.valid = FALSE]

\* the selector parser of the browser, on the selectors the model writes
parseSelector(s) ==
    CASE IsIdent(s) -> [AnySelector EXCEPT !.tag = s]
      [] Len(s) > 1 /\ s[1] = "#" /\ IsIdent(Tail(s)) ->
             [AnySelector EXCEPT !.id = Tail(s)]
      [] Len(s) > 1 /\ s[1] = "." /\ IsIdent(Tail(s)) ->
             [AnySelector EXCEPT !.class = Tail(s)]
      [] s = <<AttrNameA>> -> [AnySelector EXCEPT !.name = <<"a">>]
      [] Len(s) > 1 /\ s[Len(s)] = AttrNameA /\ IsIdent(SubSeq(s, 1, Len(s) - 1)) ->
             [AnySelector EXCEPT !.tag = SubSeq(s, 1, Len(s) - 1),
                                 !.name = <<"a">>]
      [] OTHER -> InvalidSelector

selectorMatches(sel, el) ==
    /\ sel.tag = <<>> \/ sel.tag = <<el.tag>>
    /\ sel.id = <<>> \/ sel.id = <<el.id>>
    /\ sel.class = <<>> \/ sel.class = <<el.class>>
    /\ sel.name = <<>> \/ sel.name = <<el.name>>

\* the elements a selector matches
querySelectorAll(doc, s) ==
    { i \in DOMAIN doc : selectorMatches(parseSelector(s), doc[i]) }

\* document.querySelector: throws a SyntaxError for an invalid selector
querySelector(doc, s) ==
    IF parseSelector(s).valid
    THEN [threw |-> FALSE, el |-> FirstOf(querySelectorAll(doc, s))]
    ELSE [threw |-> TRUE, el |-> 0]

\* document.evaluate(..., FIRST_ORDERED_NODE_TYPE): //tag and a bare tag are
\* the paths the model writes; any other text is not a path and throws
evaluate(doc, expr) ==
    CASE Len(expr) = 2 /\ expr[1] = "//" /\ IsWord(expr[2]) ->
             [threw |-> FALSE,
              el |-> FirstOf({ i \in DOMAIN doc : doc[i].tag = expr[2] })]
      [] Len(expr) = 1 /\ IsWord(expr[1]) ->
             [threw |-> FALSE,
              el |-> IF doc[documentElement].tag = expr[1] THEN documentElement
                                                          ELSE 0]
      [] OTHER -> [threw |-> TRUE, el |-> 0]

Returns(el) == [status |-> "returned", el |-> el]

Throws == [status |-> "threw", el |-> 0]

resolveXPath(doc, xpathExpression) ==
    IF xpathExpression = <<>> THEN Returns(0)
    ELSE Returns(evaluate(doc, xpathExpression).el)

RECURSIVE trimStart(_)
trimStart(s) == IF s # <<>> /\ s[1] = " " THEN trimStart(Tail(s)) ELSE s

RECURSIVE trimEnd(_)
trimEnd(s) ==
    IF s # <<>> /\ s[Len(s)] = " " THEN trimEnd(SubSeq(s, 1, Len(s) - 1)) ELSE s

trim(s) == trimEnd(trimStart(s))

\* .replace(/^prefix[:_]?/i, '')
replacePrefix(s, prefix) ==
    IF s # <<>> /\ s[1] = prefix
    THEN IF Len(s) > 1 /\ s[2] \in {":", "_"}
         THEN SubSeq(s, 3, Len(s)) ELSE Tail(s)
    ELSE s

\* /^(.+)_video_\d+$/
IsVideoId(s) == Len(s) >= 3 /\ s[Len(s) - 1] = "_video_" /\ IsNumber(s[Len(s)])

\* the reference without its agent_id, id and name prefixes and without a
\* _video_N suffix
normalize(trimmed) ==
    LET stripped == replacePrefix(replacePrefix(replacePrefix(trimmed,
                        "agent_id"), "id"), "name")
    IN IF IsVideoId(stripped) THEN SubSeq(stripped, 1, Len(stripped) - 2)
       ELSE stripped

\* a double quote ends the string of [data-agent-id="..."] early
HasQuote(s) == \E k \in DOMAIN s : s[k] = AttrNameA

\* .replace(/[^a-z0-9_-]/gi, '') on one token
sanitizeToken(t) ==
    CASE IsIdentToken(t) -> <<t>>
      [] t = AttrNameA -> <<"name", "a">>
      [] t = "xpath:" -> <<"xpath">>
      [] OTHER -> <<>>

RECURSIVE sanitize(_)
sanitize(s) == IF s = <<>> THEN <<>> ELSE sanitizeToken(s[1]) \o sanitize(Tail(s))

isVisible(el) == el.visible

\* the comparator of the positional finders
compareRects(a, b, tolerance) ==
    LET dTop == a.top - b.top
    IN IF dTop > tolerance \/ dTop < -tolerance THEN dTop ELSE a.left - b.left

\* Array.prototype.sort (stable) of the elements S of the document
sortByPosition(doc, S, tolerance) ==
    LET before(i, j) ==
            LET c == compareRects(doc[i], doc[j], tolerance)
            IN c < 0 \/ (c = 0 /\ i < j)
        rank(i) == Cardinality({ j \in S : before(j, i) }) + 1
    IN [k \in 1..Cardinality(S) |-> CHOOSE i \in S : rank(i) = k]

\* array[index] || null, for a 0-based index
ItemOrNull(array, index) ==
    IF index + 1 \in DOMAIN array THEN array[index + 1] ELSE 0

\* the finder without the isVisible filter
findInputByTypeAndPositionHidden(doc, inputType, targetPosition) ==
    LET allInputs == { i \in DOMAIN doc : /\ doc[i].tag = "input"
                                          /\ doc[i].type = inputType }
    IN ItemOrNull(sortByPosition(doc, allInputs, 10), targetPosition)

findInputByTypeAndPosition(doc, inputType, targetPosition) ==
    LET allInputs == { i \in DOMAIN doc : /\ doc[i].tag = "input"
                                          /\ doc[i].type = inputType
                                          /\ isVisible(doc[i]) }
    IN ItemOrNull(sortByPosition(doc, allInputs, 10), targetPosition)

findElementByTagAndPosition(doc, tagName, targetPosition) ==
    LET allElements == { i \in DOMAIN doc : doc[i].tag = tagName /\ isVisible(doc[i]) }
    IN ItemOrNull(sortByPosition(doc, allElements, 10), targetPosition)

findVideoByPosition(doc, targetPosition) ==
    LET allVideos == { i \in DOMAIN doc : isVideoElement(doc[i]) /\ isVisible(doc[i]) }
    IN ItemOrNull(sortByPosition(doc, allVideos, 50), targetPosition - 1)

\* !selector
Falsy(ref) ==
    \/ ref.kind = "undefined"
    \/ ref.kind = "string" /\ ref.s = <<>>

\* the lookups by id, name, data-agent-id and class
resolveNormalized(doc, normalized) ==
    LET byId == FirstOf({ i \in DOMAIN doc : <<doc[i].id>> = normalized })
        byName == FirstOf({ i \in DOMAIN doc : <<doc[i].name>> = normalized })
        dataAttr == FirstOf({ i \in DOMAIN doc : <<doc[i].agentId>> = normalized })
        sanitizedClass == sanitize(normalized)
        classMatch == FirstOf({ i \in DOMAIN doc : <<doc[i].class>> = sanitizedClass })
    IN IF normalized = <<>> THEN Returns(0)
       ELSE IF byId # 0 THEN Returns(byId)
       ELSE IF byName # 0 THEN Returns(byName)
       ELSE IF HasQuote(normalized) THEN Throws
       ELSE IF dataAttr # 0 THEN Returns(dataAttr)
       ELSE IF sanitizedClass = <<>> THEN Returns(0)
       ELSE IF IsNumber(sanitizedClass[1]) THEN Throws
       ELSE IF classMatch \notin {0, documentElement, body} THEN Returns(classMatch)
       ELSE Returns(0)

\* the synthetic ids input_<type>_<n>, <tag>_<n> and ..._video_<n>
resolveSynthetic(doc, trimmed) ==
    IF /\ Len(trimmed) = 5
       /\ trimmed[1] = "input" /\ trimmed[2] = "_" /\ IsWord(trimmed[3])
       /\ trimmed[4] = "_" /\ IsNumber(trimmed[5])
    THEN Returns(findInputByTypeAndPosition(doc, trimmed[3], parseInt(trimmed[5])))
    ELSE IF Len(trimmed) = 3 /\ IsWord(trimmed[1]) /\ trimmed[2] = "_"
            /\ IsNumber(trimmed[3])
    THEN Returns(findElementByTagAndPosition(doc, trimmed[1], parseInt(trimmed[3])))
    ELSE IF IsVideoId(trimmed)
    THEN Returns(findVideoByPosition(doc, parseInt(trimmed[Len(trimmed)])))
    ELSE Returns(0)

\* element && element !== document.documentElement && element !== document.body
AcceptsMatch(el) == el \notin {0, documentElement, body}

resolveElement(doc, selector) ==
    IF Falsy(selector) \/ selector.kind # "string" THEN Returns(0)
    ELSE LET trimmed == trim(selector.s)
             direct == querySelector(doc, trimmed)
             lookedUp == resolveNormalized(doc, normalize(trimmed))
         IN IF trimmed = <<>> THEN Returns(0)
            ELSE IF trimmed[1] = "xpath:" THEN resolveXPath(doc, Tail(trimmed))
            ELSE IF trimmed[1] \in {"//", "("} THEN resolveXPath(doc, trimmed)
            ELSE IF ~direct.threw /\ AcceptsMatch(direct.el) THEN Returns(direct.el)
            ELSE IF lookedUp # Returns(0) THEN lookedUp
            ELSE resolveSynthetic(doc, trimmed)

\* the references handed to the resolver
References ==
    { NoReference, Number, Str(<<>>), Str(<<" ">>) }
    \cup { Str(s) : s \in
            { <<"a">>, <<" ", "a", " ">>, <<"zz">>, <<"div">>, <<"body">>,
              <<"#", "a">>, <<"#", "zz">>, <<".", "a">>, <<".", "modal">>,
              <<AttrNameA>>, <<"input", AttrNameA>>, <<"div", AttrNameA>>,
              <<"[">>, <<"a", "[">>, <<"2">>,
              <<"id", ":", "a">>, <<"id", "_", "b">>, <<"name", ":", "a">>,
              <<"agent_id", ":", "a">>, <<"agent_id", "_", "zz">>, <<"name">>,
              <<"xpath:">>, <<"xpath:", "//", "input">>, <<"//", "div">>,
              <<"//", "zz">>, <<"//", "[">>, <<"(", "a">>, <<"xpath:", "html">>,
              <<"input", "_", "text", "_", "0">>, <<"input", "_", "text", "_", "2">>,
              <<"input", "_", "email", "_", "0">>, <<"div", "_", "1">>,
              <<"a", "_video_", "1">>, <<"zz", "_video_", "2">> } }

\* a call of resolveElement
resolveElementCall ==
    /\ resolved = NotCalled
    /\ resolved' = resolveElement(document, reference)
    /\ UNCHANGED <<agentVars, procVars, error, envVars, histVars, actVars,
                   verifyVars, queryVars, handlerVars, uiVars, bgVars,
                   document, reference, command, response, waiting, tabVars,
                   analyzed>>

\* ResolveSpec: one call of resolveElement for every page and reference
ResolveInit ==
    /\ AgentInit
    /\ AgentSvcInit
    /\ UiInit
    /\ BgInit
    /\ document \in Documents
    /\ reference \in References
    /\ resolved = NotCalled
    /\ command = NoMessage
    /\ response = NoResponse
    /\ waiting = NotWaiting
    /\ TabInit

NextResolve == resolveElementCall

ResolveSpec == ResolveInit /\ [][NextResolve]_vars

(***************************************************************************)
(* DOMAnalyzer: the page data and the agent ids.                           *)
(***************************************************************************)
\* handleGetPageData: the elements that match its selector list, in
\* document order
Interactive(doc) ==
    { i \in DOMAIN doc : \/ doc[i].tag \in {"input", "button", "textarea", "select"}
                         \/ doc[i].tag = "a" /\ doc[i].href # ""
                         \/ doc[i].class \in {"btn", "button", "link"} }

\* the elements of S in document order
RECURSIVE InDocumentOrder(_)
InDocumentOrder(S) ==
    IF S = {} THEN <<>>
    ELSE LET i == FirstOf(S) IN <<i>> \o InDocumentOrder(S \ {i})

\* prioritizeVideoOrder: the video elements sorted by position, then the rest
prioritizeVideoOrder(doc, S) ==
    LET videoElements == { i \in S : isVideoElement(doc[i]) }
    IN sortByPosition(doc, videoElements, 50) \o InDocumentOrder(S \ videoElements)

\* generateAgentId(element, counter) for element i of the page
generateAgentId(doc, i, counter) ==
    LET el == doc[i]
        suffix == IF isVideoElement(el) THEN <<"_video_", numeral(counter)>> ELSE <<>>
    IN CASE el.id # "" -> <<"id", "_", el.id>> \o suffix
         [] el.name # "" -> <<"name", "_", el.name>> \o suffix
         [] el.text # "" -> <<el.tag, "_", el.text>> \o suffix
         [] el.type # "" -> <<el.tag, "_", el.type, "_", numeral(counter)>>
                            \o (IF isVideoElement(el) THEN <<"_video">> ELSE <<>>)
         [] OTHER -> <<el.tag, "_", numeral(counter)>>
                     \o (IF isVideoElement(el) THEN <<"_video">> ELSE <<>>)

\* GET_PAGE_DATA is answered
handleGetPageData ==
    /\ analyzed.state = "none"
    /\ analyzed' = [analyzed EXCEPT !.state = "collected",
                       !.elements = prioritizeVideoOrder(document, Interactive(document))]
    /\ UNCHANGED <<agentVars, procVars, error, envVars, histVars, actVars,
                   verifyVars, queryVars, handlerVars, uiVars, bgVars,
                   document, reference, resolved, command, response, waiting,
                   tabVars>>

\* extractInteractiveElements(pageData): idCounter runs from 1
extractInteractiveElements ==
    /\ analyzed.state = "collected"
    /\ analyzed' = [analyzed EXCEPT !.state = "extracted",
                       !.ids = [idCounter \in DOMAIN analyzed.elements |->
                                   generateAgentId(document,
                                                   analyzed.elements[idCounter],
                                                   idCounter)]]
    /\ UNCHANGED <<agentVars, procVars, error, envVars, histVars, actVars,
                   verifyVars, queryVars, handlerVars, uiVars, bgVars,
                   document, reference, resolved, command, response, waiting,
                   tabVars>>

\* the decision names one of the extracted elements by its agent id
decideAgentId ==
    /\ analyzed.state = "extracted"
    /\ \E k \in DOMAIN analyzed.ids :
         /\ analyzed' = [analyzed EXCEPT !.state = "picked", !.picked = k]
         /\ reference' = Str(analyzed.ids[k])
    /\ UNCHANGED <<agentVars, procVars, error, envVars, histVars, actVars,
                   verifyVars, queryVars, handlerVars, uiVars, bgVars,
                   document, resolved, command, response, waiting, tabVars>>

\* the agent id reaches resolveElement on the unchanged page
resolveAgentId ==
    /\ analyzed.state = "picked"
    /\ resolveElementCall

\* the elements of the analyzed pages
Link == [Div EXCEPT !.tag = "a", !.href = "/about"]

AnalyzedElements ==
    { TextInput,
      [TextInput EXCEPT !.top = 100],
      [TextInput EXCEPT !.visible = FALSE],
      [Div EXCEPT !.tag = "input", !.type = "email", !.id = "a"],
      Link,
      [Div EXCEPT !.tag = "a", !.name = "a", !.href = "/watch"],
      [Div EXCEPT !.id = "b", !.class = "a", !.text = "t"] }

\* AnalyzeSpec: a page is analyzed and one of its agent ids is resolved
AnalyzeInit ==
    /\ AgentInit
    /\ AgentSvcInit
    /\ UiInit
    /\ BgInit
    /\ document \in PagesOf(AnalyzedElements)
    /\ reference = NoReference
    /\ resolved = NotCalled
    /\ command = NoMessage
    /\ response = NoResponse
    /\ waiting = NotWaiting
    /\ TabInit

NextAnalyze ==
    \/ handleGetPageData
    \/ extractInteractiveElements
    \/ decideAgentId
    \/ resolveAgentId

AnalyzeSpec == AnalyzeInit /\ [][NextAnalyze]_vars

(***************************************************************************)
(* The content script: the command handlers and the message listener.      *)
(***************************************************************************)
\* what a handler returns, or the error it throws; el is the element acted
\* on, 0 when the handler acted on the window or on nothing
Ok(el) == [status |-> "ok", error |-> "none", el |-> el, popupFound |-> "absent"]

Err(kind) == [status |-> "error", error |-> kind, el |-> 0, popupFound |-> "absent"]

\* if (message.text): a string with text
Truthy(ref) == ~Falsy(ref)

\* findElementByText: the first node whose text contains the text is the
\* root element whenever any element of the page contains it
findElementByText(doc, text) ==
    IF Falsy(text) THEN Returns(0)
    ELSE IF text.kind # "string" THEN Throws
    ELSE IF \E i \in DOMAIN doc : <<doc[i].text>> = text.s
    THEN Returns(documentElement)
    ELSE Returns(0)

RECURSIVE resolveCandidates(_, _)
resolveCandidates(doc, selectorCandidates) ==
    IF selectorCandidates = <<>> THEN Returns(0)
    ELSE LET cand == Head(selectorCandidates)
             r == resolveElement(doc, cand)
         IN IF Truthy(cand) /\ r # Returns(0) THEN r
            ELSE resolveCandidates(doc, Tail(selectorCandidates))

locateElement(doc, m) ==
    LET r == resolveCandidates(doc, <<m.selector, m.agentId, m.agent_id, m.agentID>>)
    IN IF r # Returns(0) THEN r
       ELSE IF Truthy(m.text) THEN findElementByText(doc, m.text)
       ELSE Returns(0)

\* a handler that throws when locateElement finds nothing
OnElement(doc, m, notFound, then(_)) ==
    LET r == locateElement(doc, m)
    IN IF r.status = "threw" THEN { Err("exception") }
       ELSE IF r.el = 0 THEN { Err(notFound) }
       ELSE then(r.el)

handleClick(doc, m) == OnElement(doc, m, "not_found", LAMBDA el : { Ok(el) })

\* 'value' in element, or an <input> or <textarea>
isTypeableElement(el) == el.tag \in {"input", "select", "textarea"}

\* findNearbyInput: every element of the page is a child of <body>, so the
\* nearest container with a text input is <body> and its first one is taken
findNearbyInput(doc, el) ==
    IF el = documentElement THEN 0
    ELSE FirstOf({ i \in DOMAIN doc : doc[i].tag = "input" /\ doc[i].type = "text" })

\* the click on an element that is not typeable may move the focus to any
\* typeable element, or to none
handleType(doc, m) ==
    OnElement(doc, m, "not_found",
        LAMBDA el :
            IF isTypeableElement(doc[el]) THEN { Ok(el) }
            ELSE IF findNearbyInput(doc, el) # 0 THEN { Ok(findNearbyInput(doc, el)) }
            ELSE { Err("cannot_accept_text") }
                 \cup { Ok(i) : i \in { j \in DOMAIN doc : isTypeableElement(doc[j]) } })

\* handleType, then the Enter key on the located element
handleSearch(doc, m) == handleType(doc, m)

handleSelect(doc, m) ==
    OnElement(doc, m, "not_found",
        LAMBDA el :
            IF doc[el].tag # "select" THEN { Err("not_select") }
            ELSE IF ~m.hasValue THEN { Err("value_required") }
            ELSE { Ok(el), Err("option_not_found") })

\* the scroll of the window is the result Ok(0)
handleScroll(doc, m) ==
    LET targetSelector == IF Truthy(m.selector) THEN m.selector ELSE m.agentId
        targetElement == resolveElement(doc, targetSelector)
    IN IF Truthy(targetSelector) /\ targetElement.status = "threw"
       THEN { Err("exception") }
       ELSE IF Truthy(targetSelector) /\ targetElement.el # 0
       THEN { Ok(targetElement.el) }
       ELSE { Ok(0) }

handleHover(doc, m) == OnElement(doc, m, "not_found", LAMBDA el : { Ok(el) })

handleGetText(doc, m) == OnElement(doc, m, "not_found", LAMBDA el : { Ok(el) })

handleGetAttribute(doc, m) ==
    OnElement(doc, m, "not_found",
        LAMBDA el : IF ~m.hasAttribute THEN { Err("attribute_required") }
                    ELSE { Ok(el) })

\* (message.action || 'dismiss').toLowerCase() is a TypeError for a value
\* that is truthy and not a string; the keys and the click on a close
\* button leave the result as it is
handleHandlePopup(doc, m) ==
    IF Truthy(m.action) /\ m.action.kind # "string"
    THEN { Err("exception") }
    ELSE { Ok(0) }

\* WebPageController.handlePopup: the selectors of the loop that can match
\* an element of the model's pages, in the order of the list
modalSelectors == <<"modal", "modal-dialog">>

\* the loop over modalSelectors: what modal holds when the loop ends
RECURSIVE findModal(_, _)
findModal(doc, selectors) ==
    LET modal == FirstOf({ i \in DOMAIN doc : doc[i].class = Head(selectors) })
    IN IF modal # 0 /\ isVisible(doc[modal]) THEN modal
       ELSE IF Len(selectors) = 1 THEN modal
       ELSE findModal(doc, Tail(selectors))

WebPageControllerHandlePopup(doc, m) ==
    IF ~m.hasParameters THEN { Err("exception") }
    ELSE { [Ok(findModal(doc, modalSelectors)) EXCEPT
               !.popupFound = IF findModal(doc, modalSelectors) # 0 THEN "true"
                                                                  ELSE "false"] }

\* the handlers table of AutonomousContentController
TargetCommands == {"CLICK", "TYPE", "SEARCH", "SELECT", "SCROLL", "HOVER",
                   "GET_TEXT", "GET_ATTRIBUTE"}

Handle(doc, m) ==
    CASE m.type = "CLICK" -> handleClick(doc, m)
      [] m.type = "TYPE" -> handleType(doc, m)
      [] m.type = "SEARCH" -> handleSearch(doc, m)
      [] m.type = "SELECT" -> handleSelect(doc, m)
      [] m.type = "SCROLL" -> handleScroll(doc, m)
      [] m.type = "HOVER" -> handleHover(doc, m)
      [] m.type = "GET_TEXT" -> handleGetText(doc, m)
      [] m.type = "GET_ATTRIBUTE" -> handleGetAttribute(doc, m)
      [] m.type = "HANDLE_POPUP" -> handleHandlePopup(doc, m)
      [] OTHER -> { Err("unknown_command") }

\* WebAutomation.handlePopup: executeInTab delivers HANDLE_POPUP to the tab
\* and throws when no attempt was answered with success
WebAutomationHandlePopup(doc, m, delivered) ==
    IF ~delivered THEN { Err("failed_to_handle_popup") }
    ELSE { IF r.status = "ok" THEN r ELSE Err("failed_to_handle_popup")
           : r \in handleHandlePopup(doc, m) }

\* a message with no target and with the value and attribute it needs
Message == NoMessage

\* the references of the command messages
CommandReferences ==
    { NoReference, Number, Str(<<"a">>), Str(<<"#", "zz">>), Str(<<"[">>),
      Str(<<"div", AttrNameA>>), Str(<<"select">>) }

Messages ==
    { [Message EXCEPT !.type = type, !.selector = selector, !.text = text] :
         type \in TargetCommands, selector \in CommandReferences,
         text \in {NoReference, Str(<<"t">>)} }
    \cup { [Message EXCEPT !.type = "SCROLL", !.agentId = Str(<<"#", "zz">>)],
           [Message EXCEPT !.type = "SELECT", !.selector = Str(<<"select">>),
                           !.hasValue = FALSE],
           [Message EXCEPT !.type = "GET_ATTRIBUTE", !.selector = Str(<<"a">>),
                           !.hasAttribute = FALSE] }
    \cup { [Message EXCEPT !.type = type, !.action = popupAction] :
             type \in {"HANDLE_POPUP", "EXECUTE_ENHANCED_ACTION", "handle_popup"},
             popupAction \in {NoReference, Number, Str(<<"accept">>),
                              Str(<<"dismiss">>), Str(<<"zz">>)} }
    \cup { [Message EXCEPT !.type = "EXECUTE_ENHANCED_ACTION",
                           !.hasParameters = FALSE] }

\* chrome.runtime.onMessage of AutonomousContentController
onMessage ==
    /\ command.type \in TargetCommands \cup {"HANDLE_POPUP"}
    /\ response = NoResponse
    /\ \E r \in Handle(document, command) : response' = r
    /\ UNCHANGED <<agentVars, procVars, error, envVars, histVars, actVars,
                   verifyVars, queryVars, handlerVars, uiVars, bgVars,
                   document, reference, resolved, command, waiting, tabVars,
                   analyzed>>

\* EXECUTE_ENHANCED_ACTION with action.type 'handle_popup' on WebPageController
onExecuteEnhancedAction ==
    /\ command.type = "EXECUTE_ENHANCED_ACTION"
    /\ response = NoResponse
    /\ \E r \in WebPageControllerHandlePopup(document, command) : response' = r
    /\ UNCHANGED <<agentVars, procVars, error, envVars, histVars, actVars,
                   verifyVars, queryVars, handlerVars, uiVars, bgVars,
                   document, reference, resolved, command, waiting, tabVars,
                   analyzed>>

\* the agent's handle_popup action through WebAutomation
handlePopup ==
    /\ command.type = "handle_popup"
    /\ response = NoResponse
    /\ \E delivered \in BOOLEAN :
         \E r \in WebAutomationHandlePopup(document, command, delivered) :
             response' = r
    /\ UNCHANGED <<agentVars, procVars, error, envVars, histVars, actVars,
                   verifyVars, queryVars, handlerVars, uiVars, bgVars,
                   document, reference, resolved, command, waiting, tabVars,
                   analyzed>>

\* the elements of the pages that receive commands
CommandElements ==
    { TextInput,
      [Div EXCEPT !.id = "b", !.class = "a", !.text = "t"],
      [Div EXCEPT !.agentId = "a", !.class = "modal"],
      [Div EXCEPT !.class = "modal-dialog", !.visible = FALSE],
      [Div EXCEPT !.tag = "select"] }

\* CommandSpec: one command for every page and message
CommandInit ==
    /\ AgentInit
    /\ AgentSvcInit
    /\ UiInit
    /\ BgInit
    /\ document \in PagesOf(CommandElements)
    /\ reference = NoReference
    /\ resolved = NotCalled
    /\ command \in Messages
    /\ response = NoResponse
    /\ waiting = NotWaiting
    /\ TabInit

NextCommand ==
    \/ onMessage
    \/ onExecuteEnhancedAction
    \/ handlePopup

CommandSpec == CommandInit /\ [][NextCommand]_vars

(***************************************************************************)
(* The content script: handleWaitForElement and its polls.                 *)
(***************************************************************************)
pollInterval == 200

defaultWaitTimeout == 10000

\* elementMeetsCondition(element, condition); el is 0 for null
elementMeetsCondition(doc, el, cond) ==
    CASE cond = "visible" -> el # 0 /\ isVisible(doc[el])
      [] cond = "hidden" -> el = 0 \/ ~isVisible(doc[el])
      [] cond = "enabled" -> el # 0 /\ ~doc[el].disabled
      [] cond = "clickable" -> el # 0 /\ isVisible(doc[el]) /\ ~doc[el].disabled
      [] cond = "exists" -> el # 0
      [] OTHER -> el # 0

\* message.selector || message.agentId
WaitSelector(m) == IF Truthy(m.selector) THEN m.selector ELSE m.agentId

\* (message.condition || 'visible').toLowerCase()
WaitCondition(m) == IF m.condition = "" THEN "visible" ELSE m.condition

\* Number(message.timeout) || 10000
WaitTimeout(m) == IF m.timeout = 0 THEN defaultWaitTimeout ELSE m.timeout

\* checkCondition(): "resolve" and "reject" settle the promise and return
\* true, "again" returns false, "throws" is the exception of resolveElement
checkCondition(doc, m, elapsed) ==
    LET element == resolveElement(doc, WaitSelector(m))
    IN IF element.status = "threw" THEN "throws"
       ELSE IF elementMeetsCondition(doc, element.el, WaitCondition(m))
       THEN "resolve"
       ELSE IF elapsed > WaitTimeout(m) THEN "reject"
       ELSE "again"

\* handleWaitForElement up to the end of the Promise executor: the first
\* check; an exception thrown in the executor rejects the promise
handleWaitForElement ==
    /\ command.type = "WAIT_FOR_ELEMENT"
    /\ waiting.state = "idle"
    /\ LET check == checkCondition(document, command, 0)
       IN waiting' =
            IF Falsy(WaitSelector(command))
            THEN [waiting EXCEPT !.state = "rejected", !.error = "selector_required"]
            ELSE CASE check = "throws" ->
                        [waiting EXCEPT !.state = "rejected", !.error = "exception"]
                   [] check = "resolve" -> [waiting EXCEPT !.state = "resolved"]
                   [] check = "reject" ->
                        [waiting EXCEPT !.state = "rejected", !.error = "timeout"]
                   [] OTHER -> [waiting EXCEPT !.state = "polling",
                                               !.interval = "armed"]
    /\ UNCHANGED <<agentVars, procVars, error, envVars, histVars, actVars,
                   verifyVars, queryVars, handlerVars, uiVars, bgVars,
                   document, reference, resolved, command, response, tabVars,
                   analyzed>>

\* the callback of setInterval: it runs as long as the interval is armed,
\* one interval or more after the poll before; an exception of
\* checkCondition leaves the callback before clearInterval
intervalCallback ==
    /\ waiting.interval = "armed"
    /\ waiting.elapsed < MaxElapsed
    /\ \E late \in {0, pollInterval} :
         LET elapsed == waiting.elapsed + pollInterval + late
             check == checkCondition(document, command, elapsed)
         IN waiting' =
              CASE check = "throws" ->
                      [waiting EXCEPT !.elapsed = elapsed, !.uncaught = TRUE]
                [] check = "resolve" /\ waiting.state = "polling" ->
                      [waiting EXCEPT !.elapsed = elapsed, !.state = "resolved",
                                      !.interval = "cleared"]
                [] check = "reject" /\ waiting.state = "polling" ->
                      [waiting EXCEPT !.elapsed = elapsed, !.state = "rejected",
                                      !.error = "timeout", !.interval = "cleared"]
                [] check \in {"resolve", "reject"} /\ waiting.state # "polling" ->
                      [waiting EXCEPT !.elapsed = elapsed, !.interval = "cleared"]
                [] OTHER -> [waiting EXCEPT !.elapsed = elapsed]
    /\ UNCHANGED <<agentVars, procVars, error, envVars, histVars, actVars,
                   verifyVars, queryVars, handlerVars, uiVars, bgVars,
                   document, reference, resolved, command, response, tabVars,
                   analyzed>>

\* the elements of the pages that are waited on
WaitElements ==
    { [Div EXCEPT !.id = "b"],
      [Div EXCEPT !.id = "b", !.visible = FALSE],
      [Div EXCEPT !.id = "b", !.disabled = TRUE],
      [Div EXCEPT !.name = "a"] }

WaitDocuments ==
    { <<Html, Body("")>> } \cup { <<Html, Body(""), e>> : e \in WaitElements }

WaitMessages ==
    { [Message EXCEPT !.type = "WAIT_FOR_ELEMENT", !.selector = sel,
                      !.condition = cond, !.timeout = t] :
        sel \in { NoReference, Str(<<"#", "b">>), Str(<<"div", AttrNameA>>) },
        cond \in {"", "hidden", "enabled", "clickable", "exists", "zz"},
        t \in {0, 200, 500} }

\* the page changes between two polls
DocumentChanges ==
    /\ waiting.interval = "armed"
    /\ \E doc \in WaitDocuments : doc # document /\ document' = doc
    /\ UNCHANGED <<agentVars, procVars, error, envVars, histVars, actVars,
                   verifyVars, queryVars, handlerVars, uiVars, bgVars,
                   reference, resolved, command, response, waiting, tabVars,
                   analyzed>>

\* WaitSpec: one wait_for_element command on a page that changes
WaitInit ==
    /\ AgentInit
    /\ AgentSvcInit
    /\ UiInit
    /\ BgInit
    /\ document \in WaitDocuments
    /\ reference = NoReference
    /\ resolved = NotCalled
    /\ command \in WaitMessages
    /\ response = NoResponse
    /\ waiting = NotWaiting
    /\ TabInit

NextWait ==
    \/ handleWaitForElement
    \/ intervalCallback
    \/ DocumentChanges

WaitSpec == WaitInit /\ [][NextWait]_vars

(***************************************************************************)
(* WebAutomation: executeInTab and goto.                                   *)
(***************************************************************************)
\* the catch block of the attempt loop of executeInTab
ChannelCatch(c, kind) ==
    IF c.attempt = c.retries
    THEN [c EXCEPT !.pc = "done", !.result = "threw", !.error = kind]
    ELSE [c EXCEPT !.pc = "wait", !.error = kind]

\* the lines of executeInTab before its first await, for each value of retries
ChannelCalls ==
    { [NoChannel EXCEPT !.pc = "query", !.retries = r, !.attempt = 1] :
        r \in 1..MaxRetriesOption }

\* executeInTab(command, retries = this.maxRetries), up to the first await
executeInTabCall ==
    /\ channel.pc = "idle"
    /\ channel' \in ChannelCalls
    /\ UNCHANGED <<agentVars, procVars, error, envVars, histVars, actVars,
                   verifyVars, queryVars, handlerVars, uiVars, bgVars,
                   document, reference, resolved, command, response, waiting,
                   navigation, analyzed>>

\* chrome.tabs.query answers: with the active tab, with no tab, or it rejects
tabsQuery ==
    /\ channel.pc = "query"
    /\ \E tab \in {"tab", "none", "rejects"} :
         channel' = CASE tab = "tab" ->
                           [channel EXCEPT !.pc = "send", !.sent = @ + 1,
                                           !.tab = "found", !.reply = "none"]
                      [] tab = "none" ->
                           ChannelCatch([channel EXCEPT !.tab = "missing",
                                                        !.reply = "none"],
                                        "no_active_tab")
                      [] OTHER ->
                           ChannelCatch([channel EXCEPT !.tab = "unknown",
                                                        !.reply = "none"],
                                        "query_failed")
    /\ UNCHANGED <<agentVars, procVars, error, envVars, histVars, actVars,
                   verifyVars, queryVars, handlerVars, uiVars, bgVars,
                   document, reference, resolved, command, response, waiting,
                   navigation, analyzed>>

\* the replies of chrome.tabs.sendMessage: a reply with success true, one
\* with success false and an error text, one with success false alone, no
\* reply (undefined), and a rejection because nothing listens in the tab
Replies == {"success", "failure_with_error", "failure", "undefined", "rejects"}

\* a channel that hands every reply to the caller
sendMessageReturnsAll(reply) ==
    [channel EXCEPT !.pc = "done", !.result = "returned", !.reply = reply]

\* the lines after await chrome.tabs.sendMessage(tab.id, command)
sendMessageAnswered(reply) ==
    CASE reply = "success" ->
            [channel EXCEPT !.pc = "done", !.result = "returned",
                            !.reply = reply, !.error = "none"]
      [] reply = "failure_with_error" ->
            ChannelCatch([channel EXCEPT !.reply = reply], "reply_error")
      [] reply \in {"failure", "undefined"} ->
            ChannelCatch([channel EXCEPT !.reply = reply], "command_failed")
      [] OTHER -> ChannelCatch([channel EXCEPT !.reply = reply], "no_receiver")

sendMessage ==
    /\ channel.pc = "send"
    /\ \E reply \in Replies : channel' = sendMessageAnswered(reply)
    /\ UNCHANGED <<agentVars, procVars, error, envVars, histVars, actVars,
                   verifyVars, queryVars, handlerVars, uiVars, bgVars,
                   document, reference, resolved, command, response, waiting,
                   navigation, analyzed>>

\* await this.wait(this.retryDelay) ends: the next attempt
retryDelay ==
    /\ channel.pc = "wait"
    /\ channel' = [channel EXCEPT !.pc = "query", !.attempt = @ + 1,
                                  !.waits = @ + 1]
    /\ UNCHANGED <<agentVars, procVars, error, envVars, histVars, actVars,
                   verifyVars, queryVars, handlerVars, uiVars, bgVars,
                   document, reference, resolved, command, response, waiting,
                   navigation, analyzed>>

\* ChannelSpec: one call of executeInTab with every answer of the browser
ChannelInit == Init

NextChannel ==
    \/ executeInTabCall
    \/ tabsQuery
    \/ sendMessage
    \/ retryDelay

ChannelSpec == ChannelInit /\ [][NextChannel]_vars

\* waitForPageLoad(): result.success of the reply to WAIT_FOR_LOAD, false
\* when executeInTab throws
waitForPageLoad(c) == c.result = "returned" /\ c.reply = "success"

\* ensureContentScriptReady(tab.id): true, or false after its attempts
ensureContentScriptReady == {TRUE, FALSE}

\* goto(params) up to the first await: the url is required
gotoCall ==
    /\ navigation.pc = "idle"
    /\ \E rawUrl \in TargetUrls \cup {NoUrl} :
         navigation' =
            IF rawUrl = NoUrl
            THEN [navigation EXCEPT !.pc = "done", !.result = "threw",
                                    !.error = "url_required"]
            ELSE [navigation EXCEPT !.pc = "query",
                     !.url = IF rawUrl.scheme = ""
                             THEN [rawUrl EXCEPT !.scheme = "https://"]
                             ELSE rawUrl]
    /\ UNCHANGED <<agentVars, procVars, error, envVars, histVars, actVars,
                   verifyVars, queryVars, handlerVars, uiVars, bgVars,
                   document, reference, resolved, command, response, waiting,
                   channel, analyzed>>

\* chrome.tabs.query answers; without a tab the catch block takes over
gotoTabsQuery ==
    /\ navigation.pc = "query"
    /\ \E tab \in BOOLEAN :
         navigation' = IF tab THEN [navigation EXCEPT !.pc = "update"]
                       ELSE [navigation EXCEPT !.pc = "fallback",
                                               !.path = "fallback"]
    /\ UNCHANGED <<agentVars, procVars, error, envVars, histVars, actVars,
                   verifyVars, queryVars, handlerVars, uiVars, bgVars,
                   document, reference, resolved, command, response, waiting,
                   channel, analyzed>>

\* chrome.tabs.update(tab.id, { url }) answers, then wait(500) begins
gotoTabsUpdate ==
    /\ navigation.pc = "update"
    /\ \E updated \in BOOLEAN :
         navigation' = IF updated
                       THEN [navigation EXCEPT !.pc = "load", !.path = "primary",
                                               !.addressChanged = TRUE]
                       ELSE [navigation EXCEPT !.pc = "fallback",
                                               !.path = "fallback"]
    /\ UNCHANGED <<agentVars, procVars, error, envVars, histVars, actVars,
                   verifyVars, queryVars, handlerVars, uiVars, bgVars,
                   document, reference, resolved, command, response, waiting,
                   channel, analyzed>>

\* wait(500) is over: waitForPageLoad() sends WAIT_FOR_LOAD
gotoWaitForPageLoad ==
    /\ navigation.pc = "load"
    /\ channel.pc = "idle"
    /\ channel' \in ChannelCalls
    /\ navigation' = [navigation EXCEPT !.pc = "loading"]
    /\ UNCHANGED <<agentVars, procVars, error, envVars, histVars, actVars,
                   verifyVars, queryVars, handlerVars, uiVars, bgVars,
                   document, reference, resolved, command, response, waiting,
                   analyzed>>

\* await this.waitForPageLoad() of the try block ends: the value is dropped
gotoPageLoadAnswered ==
    /\ navigation.pc = "loading"
    /\ channel.pc = "done"
    /\ navigation' = [navigation EXCEPT !.pc = "ready",
                         !.loadComplete = waitForPageLoad(channel)]
    /\ channel' = NoChannel
    /\ UNCHANGED <<agentVars, procVars, error, envVars, histVars, actVars,
                   verifyVars, queryVars, handlerVars, uiVars, bgVars,
                   document, reference, resolved, command, response, waiting,
                   analyzed>>

\* await this.ensureContentScriptReady(tab.id), then the success result
gotoEnsureContentScriptReady ==
    /\ navigation.pc = "ready"
    /\ \E ready \in ensureContentScriptReady :
         navigation' = [navigation EXCEPT !.pc = "done", !.scriptReady = ready,
                                          !.result = "success"]
    /\ UNCHANGED <<agentVars, procVars, error, envVars, histVars, actVars,
                   verifyVars, queryVars, handlerVars, uiVars, bgVars,
                   document, reference, resolved, command, response, waiting,
                   channel, analyzed>>

\* the catch block: executeInTab({ type: 'NAVIGATE', url })
gotoFallback ==
    /\ navigation.pc = "fallback"
    /\ channel.pc = "idle"
    /\ channel' \in ChannelCalls
    /\ navigation' = [navigation EXCEPT !.pc = "navigating"]
    /\ UNCHANGED <<agentVars, procVars, error, envVars, histVars, actVars,
                   verifyVars, queryVars, handlerVars, uiVars, bgVars,
                   document, reference, resolved, command, response, waiting,
                   analyzed>>

\* NAVIGATE was answered or executeInTab threw; after a reply the catch
\* block calls waitForPageLoad()
gotoFallbackNavigate ==
    /\ navigation.pc = "navigating"
    /\ channel.pc = "done"
    /\ IF channel.result = "returned"
       THEN /\ navigation' = [navigation EXCEPT !.pc = "fallback_loading",
                                                !.addressChanged = TRUE]
            /\ channel' = [NoChannel EXCEPT !.pc = "query",
                              !.retries = channel.retries, !.attempt = 1]
       ELSE /\ navigation' = [navigation EXCEPT !.pc = "done",
                                 !.result = "threw",
                                 !.error = "failed_to_navigate"]
            /\ channel' = NoChannel
    /\ UNCHANGED <<agentVars, procVars, error, envVars, histVars, actVars,
                   verifyVars, queryVars, handlerVars, uiVars, bgVars,
                   document, reference, resolved, command, response, waiting,
                   analyzed>>

\* await this.waitForPageLoad() of the catch block ends: the value is
\* dropped, then the success result
gotoFallbackWaitForPageLoad ==
    /\ navigation.pc = "fallback_loading"
    /\ channel.pc = "done"
    /\ navigation' = [navigation EXCEPT !.pc = "done",
                         !.loadComplete = waitForPageLoad(channel),
                         !.result = "success"]
    /\ channel' = NoChannel
    /\ UNCHANGED <<agentVars, procVars, error, envVars, histVars, actVars,
                   verifyVars, queryVars, handlerVars, uiVars, bgVars,
                   document, reference, resolved, command, response, waiting,
                   analyzed>>

\* GotoSpec: one call of goto with every answer of the browser and the tab
GotoInit == Init

NextGoto ==
    \/ gotoCall
    \/ gotoTabsQuery
    \/ gotoTabsUpdate
    \/ gotoWaitForPageLoad
    \/ gotoPageLoadAnswered
    \/ gotoEnsureContentScriptReady
    \/ gotoFallback
    \/ gotoFallbackNavigate
    \/ gotoFallbackWaitForPageLoad
    \/ tabsQuery
    \/ sendMessage
    \/ retryDelay

GotoSpec == GotoInit /\ [][NextGoto]_vars

(***************************************************************************)
(* executeWorkflow: the step loop.                                         *)
(***************************************************************************)
\* the condition of the while loop
LoopContinues == currentStepIndex < Len(currentPlan) /\ isExecuting

\* the top of the while loop; leaving it returns completeTask()'s summary or
\* the interrupted result
executeWorkflow ==
    /\ pc = "loop"
    /\ IF LoopContinues
       THEN /\ pc' = "observe"
            /\ attempts' = attempts + 1
            /\ UNCHANGED <<isExecuting, result>>
       ELSE /\ isExecuting' = FALSE
            /\ pc' = "idle"
            /\ result' = IF currentStepIndex >= Len(currentPlan)
                         THEN "completed" ELSE "interrupted"
            /\ UNCHANGED attempts
    /\ UNCHANGED <<context, originalGoal, currentPlan, currentStepIndex,
                   retryCount, domCache, errorHistory, handler, envVars,
                   finished, stopRequested, obs>>
    /\ UNCHANGED <<error, svcVars>>

\* a further failure keeps the counters within the model's cap
CanFail == retryCount[currentStepIndex] < MaxCount

\* executeStep threw: the catch block of the loop calls handleStepFailure
StepThrows ==
    /\ CanFail
    /\ pc' = "failed"
    /\ handler' = "catch"

\* the kinds of error act() throws, and any other exception of a step
ActErrorKinds ==
    { r.kind : r \in { o \in UNION { ActOutcomes(a) : a \in Actions } :
                          o.status = "error" } }

StepErrorKinds == ActErrorKinds \cup {"other"}

\* OBSERVE
executeStepObserve ==
    /\ pc = "observe"
    /\ \E url \in {pageUrl}, how \in {"local", "gemini"} :
         observe(url, how)
    /\ pc' = "decide"
    /\ UNCHANGED <<originalGoal, currentPlan, currentStepIndex, retryCount,
                   isExecuting, errorHistory, handler, result,
                   envVars, attempts, finished, stopRequested>>
    /\ UNCHANGED <<error, svcVars>>

executeStepObserveThrows ==
    /\ pc = "observe"
    /\ \E url \in {pageUrl}, how \in {"htmlThrow", "geminiThrow"} :
         ObserveThrows(url, how)
    /\ StepThrows
    /\ error' = "other"
    /\ UNCHANGED <<agentVars, result, envVars, histVars>>
    /\ UNCHANGED svcVars

\* DECIDE (and the user-input check)
executeStepDecide ==
    /\ pc = "decide"
    /\ pc' = "act"
    /\ UNCHANGED <<agentVars, handler, result, envVars, histVars>>
    /\ UNCHANGED <<error, svcVars>>

\* an ACT stage whose outcome is taken for verified
executeStepActSkipsVerify ==
    /\ pc = "act"
    /\ pc' = "update"
    /\ UNCHANGED <<agentVars, handler, result, envVars, histVars>>
    /\ UNCHANGED <<error, svcVars>>

\* ACT
executeStepAct ==
    /\ pc = "act"
    /\ pc' = "verify"
    /\ UNCHANGED <<agentVars, handler, result, envVars, histVars>>
    /\ UNCHANGED <<error, svcVars>>

\* VERIFY: the verification succeeded
executeStepVerify ==
    /\ pc = "verify"
    /\ pc' = "update"
    /\ UNCHANGED <<agentVars, handler, result, envVars, histVars>>
    /\ UNCHANGED <<error, svcVars>>

\* VERIFY: verification.success is false, executeStep returns false and the
\* try block calls handleStepFailure
executeStepVerifyFails ==
    /\ pc = "verify"
    /\ CanFail
    /\ pc' = "failed"
    /\ handler' = "try"
    /\ error' = "none"
    /\ UNCHANGED <<agentVars, result, envVars, histVars>>
    /\ UNCHANGED svcVars

\* act() throws: the action is rejected or its command fails
executeStepActThrows ==
    /\ pc = "act"
    /\ StepThrows
    /\ \E kind \in ActErrorKinds : error' = kind
    /\ UNCHANGED <<agentVars, result, envVars, histVars>>
    /\ UNCHANGED svcVars

\* decide, verify or updateContext throws
executeStepThrows ==
    /\ pc \in {"decide", "verify", "update"}
    /\ StepThrows
    /\ error' = "other"
    /\ UNCHANGED <<agentVars, result, envVars, histVars>>
    /\ UNCHANGED svcVars

\* the index a successful step leaves
NextStepIndex(i) == i + 1

\* the counter a successful step at index i resets: the increment of the
\* index comes first
ResetAfterSuccess(i) == NextStepIndex(i)

\* UPDATE CONTEXT (Object.assign merges the backend's keys), then the success
\* branch of the loop
executeStepUpdateContext ==
    /\ pc = "update"
    /\ \E new_context \in SUBSET Keys :
         context' = [context EXCEPT !.facts = @ \cup new_context]
    /\ currentStepIndex' = NextStepIndex(currentStepIndex)
    /\ retryCount' = [retryCount EXCEPT
                        ![ResetAfterSuccess(currentStepIndex)] = 0]
    /\ pc' = "loop"
    /\ attempts' = 0
    /\ finished' = finished \cup {currentStepIndex}
    /\ UNCHANGED <<originalGoal, currentPlan, isExecuting,
                   domCache, errorHistory, handler, result, envVars,
                   stopRequested, obs>>
    /\ UNCHANGED <<error, svcVars>>

(***************************************************************************)
(* handleStepFailure and reorientAgent.                                    *)
(***************************************************************************)
\* an off-by-one in the retry test: one more plain retry before recovery
SimpleRetryInclusive(count) == count <= maxRetries

\* this.retryCount[stepId] < this.maxRetries
SimpleRetry(count) == count < maxRetries

handleStepFailure ==
    /\ pc = "failed"
    /\ LET count == retryCount[currentStepIndex] + 1
       IN /\ retryCount' = [retryCount EXCEPT ![currentStepIndex] = count]
          /\ pc' = IF SimpleRetry(count) THEN "loop" ELSE "reorient"
    /\ error' = "none"
    /\ UNCHANGED <<context, originalGoal, currentPlan, currentStepIndex,
                   isExecuting, domCache, errorHistory, handler,
                   result, envVars, histVars>>
    /\ UNCHANGED svcVars

\* getPageTitle and observe() of reorientAgent
reorientAgentObserve ==
    /\ pc = "reorient"
    /\ \E url \in {pageUrl}, how \in {"local", "gemini"} :
         observe(url, how)
    /\ pc' = "reorientQuery"
    /\ UNCHANGED <<originalGoal, currentPlan, currentStepIndex, retryCount,
                   isExecuting, errorHistory, handler, result,
                   envVars, attempts, finished, stopRequested>>
    /\ UNCHANGED <<error, svcVars>>

\* a skip that jumps over the next step as well
SkipStepIndexByTwo(i) == i + 2

\* the index skip_step leaves
SkipStepIndex(i) == i + 1

\* the index new_plan leaves
NewPlanIndex == 0

\* the backend's recovery answer
reorientAgent ==
    /\ pc = "reorientQuery"
    /\ \E recovery_action \in RecoveryActions :
         /\ CASE recovery_action = "retry_step" ->
                   /\ retryCount' = [retryCount EXCEPT ![currentStepIndex] = 0]
                   /\ pc' = "loop"
                   /\ UNCHANGED <<currentStepIndex, finished>>
              [] recovery_action = "skip_step" ->
                   /\ currentStepIndex' = SkipStepIndex(currentStepIndex)
                   /\ finished' = finished \cup {currentStepIndex}
                   /\ pc' = "loop"
                   /\ UNCHANGED retryCount
              [] recovery_action = "new_plan" ->
                   /\ pc' = "replan"
                   /\ UNCHANGED <<currentStepIndex, retryCount, finished>>
              [] recovery_action = "other" ->
                   /\ pc' = "loop"
                   /\ UNCHANGED <<currentStepIndex, retryCount, finished>>
         /\ attempts' = IF recovery_action = "new_plan" THEN attempts ELSE 0
    /\ UNCHANGED <<context, originalGoal, currentPlan, isExecuting, domCache, errorHistory, handler, result,
                   envVars, stopRequested, obs>>
    /\ UNCHANGED <<error, svcVars>>

\* new_plan: the planning query of reorientAgent answers
reorientAgentNewPlan ==
    /\ pc = "replan"
    /\ \E plan \in Plans : currentPlan' = plan
    /\ currentStepIndex' = NewPlanIndex
    /\ pc' = "loop"
    /\ attempts' = 0
    /\ finished' = {}
    /\ UNCHANGED <<context, originalGoal, retryCount, isExecuting, domCache, errorHistory, handler, result,
                   envVars, stopRequested, obs>>
    /\ UNCHANGED <<error, svcVars>>

\* reorientAgent throws: getPageTitle, observe(), the recovery query or the
\* planning query failed.  Called from the try block, the loop's catch block
\* handles the same step again; called from the catch block, the exception
\* leaves executeWorkflow and processUserRequest returns the error.
reorientAgentThrows ==
    /\ pc \in {"reorient", "reorientQuery", "replan"}
    /\ attempts' = 0
    /\ IF handler = "try"
       THEN /\ CanFail
            /\ pc' = "failed"
            /\ handler' = "catch"
            /\ error' = "other"
            /\ UNCHANGED result
       ELSE /\ ReturnError
            /\ UNCHANGED <<handler, error>>
    /\ UNCHANGED <<agentVars, envVars, finished, stopRequested, obs>>
    /\ UNCHANGED svcVars

(***************************************************************************)
(* The background listener: every PROCESS_COMMAND message starts a call of *)
(* processUserRequest on the one agent instance.  A call runs from the     *)
(* await it is suspended at to its next await in one step.                 *)
(***************************************************************************)
\* the awaits at which a Decision Backend query is in flight
BackendAwaits == {"triage", "simple", "planning", "decide", "verify",
                  "update", "reorientQuery", "replan"}

\* the awaits at which a command to the tab is in flight
ExecutorAwaits == {"observe", "act", "reorient"}

\* the awaits between the initialisation of the task state and the return
TaskAwaits == (BackendAwaits \cup ExecutorAwaits) \ {"triage", "simple"}

Suspended(c, at) == c \in DOMAIN calls /\ calls[c].pc = at

\* the success flag of the result of AutonomousWebAgent.processUserRequest:
\* true from completeTask and handleSimpleQuery, false from the catch block
\* and from an interrupted workflow
ResultSuccess(r) == r \in {"completed", "simple_answer"}

\* no reply to PROCESS_COMMAND yet
NoReply == [sent |-> FALSE, success |-> FALSE]

\* the background's processUserRequest after the agent's call returned r
processUserRequestReply(r) == [sent |-> TRUE, success |-> TRUE]

Returned(r) == [pc |-> "done", handler |-> "try", result |-> r,
                reply |-> processUserRequestReply(r)]

Awaiting(at, h) == [pc |-> at, handler |-> h, result |-> "none",
                    reply |-> NoReply]

\* the while test of executeWorkflow on the fields as they are now, and the
\* return that follows when it fails
WhileTest(c, idx, plan, exec) ==
    IF idx < Len(plan) /\ exec
    THEN /\ calls' = [calls EXCEPT ![c] = Awaiting("observe", "try")]
         /\ isExecuting' = exec
    ELSE /\ calls' = [calls EXCEPT ![c] =
                         Returned(IF idx >= Len(plan) THEN "completed"
                                                      ELSE "interrupted")]
         /\ isExecuting' = FALSE

\* chrome.runtime.onMessage: PROCESS_COMMAND, with the agent created
onProcessCommand ==
    /\ Len(calls) < MaxCalls
    /\ calls' = Append(calls, Awaiting("triage", "try"))
    /\ UNCHANGED <<agentVars, procVars, error, envVars, histVars, actVars,
                   verifyVars, queryVars, handlerVars, uiVars, domVars, failures>>

\* triageTask returns to call c
callTriage(c) ==
    /\ Suspended(c, "triage")
    /\ \E task_type \in {"simple_query", "agentic_task"} :
         IF task_type = "simple_query"
         THEN /\ calls' = [calls EXCEPT ![c] = Awaiting("simple", "try")]
              /\ UNCHANGED <<originalGoal, context, currentStepIndex,
                             retryCount>>
         ELSE /\ originalGoal' = c
              /\ context' = EmptyContext
              /\ currentStepIndex' = 0
              /\ retryCount' = NoRetries
              /\ calls' = [calls EXCEPT ![c] = Awaiting("planning", "try")]
    /\ UNCHANGED <<currentPlan, isExecuting, domCache, errorHistory,
                   procVars, error, envVars, histVars, actVars, verifyVars,
                   queryVars, handlerVars, uiVars, domVars, failures>>

callSimpleQuery(c) ==
    /\ Suspended(c, "simple")
    /\ calls' = [calls EXCEPT ![c] = Returned("simple_answer")]
    /\ UNCHANGED <<agentVars, procVars, error, envVars, histVars, actVars,
                   verifyVars, queryVars, handlerVars, uiVars, domVars, failures>>

\* the query of triage, of the simple answer or of planning throws: the
\* catch block of processUserRequest
callCatch(c) ==
    /\ \E at \in {"triage", "simple", "planning"} : Suspended(c, at)
    /\ calls' = [calls EXCEPT ![c] = Returned("error")]
    /\ UNCHANGED <<agentVars, procVars, error, envVars, histVars, actVars,
                   verifyVars, queryVars, handlerVars, uiVars, domVars, failures>>

\* generateHighLevelPlan returns to call c and executeWorkflow starts
callPlan(c) ==
    /\ Suspended(c, "planning")
    /\ \E plan \in Plans :
         /\ currentPlan' = plan
         /\ WhileTest(c, currentStepIndex, plan, TRUE)
    /\ UNCHANGED <<context, originalGoal, currentStepIndex, retryCount,
                   domCache, errorHistory, procVars, error, envVars,
                   histVars, actVars, verifyVars, queryVars, handlerVars,
                   uiVars, domVars, failures>>

\* OBSERVE returns to call c
callObserve(c) ==
    /\ Suspended(c, "observe")
    /\ \E url \in {pageUrl}, how \in {"local", "gemini"} : observe(url, how)
    /\ calls' = [calls EXCEPT ![c] = Awaiting("decide", "try")]
    /\ UNCHANGED <<originalGoal, currentPlan, currentStepIndex, retryCount,
                   isExecuting, errorHistory, procVars, error, envVars,
                   attempts, finished, stopRequested, actVars, verifyVars,
                   queryVars, handlerVars, uiVars, domVars, failures>>

\* DECIDE and ACT return to call c
callAdvance(c) ==
    /\ \/ Suspended(c, "decide")
          /\ calls' = [calls EXCEPT ![c] = Awaiting("act", "try")]
       \/ Suspended(c, "act")
          /\ calls' = [calls EXCEPT ![c] = Awaiting("verify", "try")]
    /\ UNCHANGED <<agentVars, procVars, error, envVars, histVars, actVars,
                   verifyVars, queryVars, handlerVars, uiVars, domVars, failures>>

\* handleStepFailure of call c up to its return or to the first await of
\* reorientAgent
callHandleStepFailure(c, h) ==
    /\ failures < MaxFailures
    /\ failures' = failures + 1
    /\ LET stepId == currentStepIndex
           count == retryCount[stepId] + 1
       IN /\ retryCount' = [retryCount EXCEPT ![stepId] = count]
          /\ IF SimpleRetry(count)
             THEN WhileTest(c, currentStepIndex, currentPlan, isExecuting)
             ELSE /\ calls' = [calls EXCEPT ![c] = Awaiting("reorient", h)]
                  /\ UNCHANGED isExecuting

\* VERIFY returns to call c
callVerify(c) ==
    /\ Suspended(c, "verify")
    /\ \E success \in BOOLEAN :
         IF success
         THEN /\ calls' = [calls EXCEPT ![c] = Awaiting("update", "try")]
              /\ UNCHANGED <<retryCount, isExecuting, failures>>
         ELSE callHandleStepFailure(c, "try")
    /\ UNCHANGED <<context, originalGoal, currentPlan, currentStepIndex,
                   domCache, errorHistory, procVars, error, envVars,
                   histVars, actVars, verifyVars, queryVars, handlerVars,
                   uiVars, domVars>>

\* a stage of executeStep throws in call c
callStepThrows(c) ==
    /\ \E at \in {"observe", "decide", "act", "verify", "update"} :
         Suspended(c, at)
    /\ callHandleStepFailure(c, "catch")
    /\ UNCHANGED <<context, originalGoal, currentPlan, currentStepIndex,
                   domCache, errorHistory, procVars, error, envVars,
                   histVars, actVars, verifyVars, queryVars, handlerVars,
                   uiVars, domVars>>

\* updateContext returns to call c: the success branch of the loop
callUpdateContext(c) ==
    /\ Suspended(c, "update")
    /\ \E new_context \in SUBSET Keys :
         context' = [context EXCEPT !.facts = @ \cup new_context]
    /\ currentStepIndex' = NextStepIndex(currentStepIndex)
    /\ retryCount' = [retryCount EXCEPT
                        ![ResetAfterSuccess(currentStepIndex)] = 0]
    /\ WhileTest(c, NextStepIndex(currentStepIndex), currentPlan, isExecuting)
    /\ UNCHANGED <<originalGoal, currentPlan, domCache, errorHistory,
                   procVars, error, envVars, histVars, actVars, verifyVars,
                   queryVars, handlerVars, uiVars, domVars, failures>>

\* getPageTitle and observe() of reorientAgent return to call c
callReorientObserve(c) ==
    /\ Suspended(c, "reorient")
    /\ \E url \in {pageUrl}, how \in {"local", "gemini"} : observe(url, how)
    /\ calls' = [calls EXCEPT ![c] = Awaiting("reorientQuery", calls[c].handler)]
    /\ UNCHANGED <<originalGoal, currentPlan, currentStepIndex, retryCount,
                   isExecuting, errorHistory, procVars, error, envVars,
                   attempts, finished, stopRequested, actVars, verifyVars,
                   queryVars, handlerVars, uiVars, domVars, failures>>

\* the recovery query returns to call c
callReorient(c) ==
    /\ Suspended(c, "reorientQuery")
    /\ \E recovery_action \in RecoveryActions :
         CASE recovery_action = "retry_step" ->
                /\ retryCount' = [retryCount EXCEPT ![currentStepIndex] = 0]
                /\ WhileTest(c, currentStepIndex, currentPlan, isExecuting)
                /\ UNCHANGED currentStepIndex
           [] recovery_action = "skip_step" ->
                /\ currentStepIndex' = SkipStepIndex(currentStepIndex)
                /\ WhileTest(c, SkipStepIndex(currentStepIndex), currentPlan,
                             isExecuting)
                /\ UNCHANGED retryCount
           [] recovery_action = "new_plan" ->
                /\ calls' = [calls EXCEPT ![c] =
                                Awaiting("replan", calls[c].handler)]
                /\ UNCHANGED <<currentStepIndex, retryCount, isExecuting>>
           [] recovery_action = "other" ->
                /\ WhileTest(c, currentStepIndex, currentPlan, isExecuting)
                /\ UNCHANGED <<currentStepIndex, retryCount>>
    /\ UNCHANGED <<context, originalGoal, currentPlan, domCache,
                   errorHistory, procVars, error, envVars, histVars, actVars,
                   verifyVars, queryVars, handlerVars, uiVars, domVars, failures>>

\* the planning query of reorientAgent returns to call c
callReorientNewPlan(c) ==
    /\ Suspended(c, "replan")
    /\ \E plan \in Plans :
         /\ currentPlan' = plan
         /\ WhileTest(c, NewPlanIndex, plan, isExecuting)
    /\ currentStepIndex' = NewPlanIndex
    /\ UNCHANGED <<context, originalGoal, retryCount, domCache,
                   errorHistory, procVars, error, envVars, histVars, actVars,
                   verifyVars, queryVars, handlerVars, uiVars, domVars, failures>>

\* reorientAgent throws in call c: from the try block the catch block of the
\* loop handles the step again, from the catch block the exception leaves
\* executeWorkflow and processUserRequest returns the error
callReorientThrows(c) ==
    /\ \E at \in {"reorient", "reorientQuery", "replan"} : Suspended(c, at)
    /\ IF calls[c].handler = "try"
       THEN callHandleStepFailure(c, "catch")
       ELSE /\ calls' = [calls EXCEPT ![c] = Returned("error")]
            /\ UNCHANGED <<retryCount, isExecuting, failures>>
    /\ UNCHANGED <<context, originalGoal, currentPlan, currentStepIndex,
                   domCache, errorHistory, procVars, error, envVars,
                   histVars, actVars, verifyVars, queryVars, handlerVars,
                   uiVars, domVars>>

\* the event loop resumes call c
callResumes(c) ==
    \/ callTriage(c)
    \/ callSimpleQuery(c)
    \/ callCatch(c)
    \/ callPlan(c)
    \/ callObserve(c)
    \/ callAdvance(c)
    \/ callVerify(c)
    \/ callStepThrows(c)
    \/ callUpdateContext(c)
    \/ callReorientObserve(c)
    \/ callReorient(c)
    \/ callReorientNewPlan(c)
    \/ callReorientThrows(c)

\* BgSpec: the listener and the calls it started
BgSpecInit == Init

NextBg ==
    \/ onProcessCommand
    \/ \E c \in 1..MaxCalls : callResumes(c)

BgSpec == BgSpecInit /\ [][NextBg]_vars

(***************************************************************************)
(* stop() and the environment.                                             *)
(***************************************************************************)
\* a STOP_AGENT message
stop ==
    /\ isExecuting \/ (pc # "idle" /\ ~stopRequested)
    /\ isExecuting' = FALSE
    /\ stopRequested' = (stopRequested \/ pc # "idle")
    /\ UNCHANGED <<context, originalGoal, currentPlan, currentStepIndex,
                   retryCount, domCache, errorHistory, procVars,
                   envVars, attempts, finished, obs>>
    /\ UNCHANGED <<error, svcVars>>

\* time passes
Tick ==
    /\ now + TickMs <= MaxTime
    /\ now' = now + TickMs
    /\ UNCHANGED <<agentVars, procVars, pageUrl, pageHtml, taskNo, histVars>>
    /\ UNCHANGED <<error, svcVars>>

\* the executed action, the user or the page itself changes the document
PageChanges ==
    /\ \E u \in Urls, h \in Pages :
         /\ <<u, h>> # <<pageUrl, pageHtml>>
         /\ pageUrl' = u
         /\ pageHtml' = h
    /\ UNCHANGED <<agentVars, procVars, now, taskNo, histVars>>
    /\ UNCHANGED <<error, svcVars>>

\* the continuations of a task in which no call fails
TaskStep ==
    \/ processUserRequest
    \/ triageTask
    \/ handleSimpleQuery
    \/ generateHighLevelPlan
    \/ executeWorkflow
    \/ executeStepObserve
    \/ executeStepDecide
    \/ executeStepAct
    \/ executeStepVerify
    \/ executeStepUpdateContext

\* failures and their handling
FailureStep ==
    \/ processUserRequestCatch
    \/ executeStepObserveThrows
    \/ executeStepVerifyFails
    \/ executeStepActThrows
    \/ executeStepThrows
    \/ handleStepFailure
    \/ reorientAgentObserve
    \/ reorientAgent
    \/ reorientAgentNewPlan
    \/ reorientAgentThrows

AgentStep == TaskStep \/ FailureStep

(***************************************************************************)
(* Spec: the orchestrator with every outcome of every call and stop() at   *)
(* any moment, on a page and a clock that stand still.                     *)
(***************************************************************************)
Next ==
    \/ AgentStep
    \/ stop

Spec == Init /\ [][Next]_vars

(***************************************************************************)
(* CacheSpec: the tasks in which no call fails, on a page that changes and *)
(* a clock that runs.                                                      *)
(***************************************************************************)
NextCache ==
    \/ TaskStep
    \/ Tick
    \/ PageChanges

CacheSpec == Init /\ [][NextCache]_vars

(***************************************************************************)
(* LiveSpec: Spec with the scheduling of the event loop: a suspended       *)
(* coroutine is resumed once the call it awaits has settled.               *)
(***************************************************************************)
LiveSpec == Init /\ [][Next]_vars /\ WF_vars(AgentStep)

TypeOK ==
    /\ pc \in {"idle", "triage", "simple", "planning", "loop", "observe",
               "decide", "act", "verify", "update", "failed", "reorient",
               "reorientQuery", "replan"}
    /\ currentStepIndex \in 0..MaxPlanLen
    /\ \A i \in 0..MaxPlanLen : retryCount[i] \in 0..(MaxCount + 1)

(***************************************************************************)
(* Properties of the retry budget and the step loop.                       *)
(***************************************************************************)

\* C1: for any step, at most maxRetries executeStep attempts are made before
\* reorientAgent is invoked, counted from the step's first attempt and again
\* from each recovery of it.
C1_RetryBudget == attempts <= maxRetries

\* recovery is invoked after exactly maxRetries attempts
C1_Witness == pc = "reorient" /\ attempts = maxRetries

\* C2: every retry counter stays within maxRetries in every reachable state.
C2_CounterBounded == \A i \in 0..MaxPlanLen : retryCount[i] <= maxRetries

\* C3: every task that started eventually returns; no step is retried forever.
C3_Terminates == (pc = "triage") ~> (pc = "idle")

\* a step of the loop that moves the index the way the claim allows
IndexMove ==
    \/ currentStepIndex' = currentStepIndex
    \/ /\ currentStepIndex' = currentStepIndex + 1
       /\ pc \in {"update", "reorientQuery"}
    \/ /\ currentStepIndex' = 0
       /\ pc = "replan"

\* every step before the current one succeeded or was skipped
InPlanOrder == \A j \in 0..(currentStepIndex - 1) : j \in finished

\* C4: inside executeWorkflow the step index stays, advances by one on a
\* success or a skip_step recovery, or returns to 0 on a new_plan recovery,
\* and a step is attempted only once all earlier steps of the current plan
\* succeeded or were skipped.
C4_IndexForward ==
    [][ /\ (pc \notin {"idle", "triage"}) => IndexMove
        /\ (pc' = "observe") => InPlanOrder' ]_vars

\* the second step is attempted after a recovery skipped or re-planned the first
C4_Witness ==
    /\ pc = "observe"
    /\ currentStepIndex = 1
    /\ retryCount[0] >= maxRetries
    /\ finished = {0}

\* C5: a success advances the index by one and resets the counter of the step
\* that succeeded; a failure adds one to the counter of the failed step and
\* leaves the index.
C5_SuccessResetsOwnCounter ==
    [][ /\ (pc = "update" /\ pc' = "loop") =>
              /\ currentStepIndex' = currentStepIndex + 1
              /\ retryCount'[currentStepIndex] = 0
        /\ (pc = "failed" /\ pc' # "failed") =>
              /\ retryCount'[currentStepIndex] = retryCount[currentStepIndex] + 1
              /\ currentStepIndex' = currentStepIndex ]_vars

\* C6: once stop() was called during a task, no further step attempt starts,
\* and the task is reported completed only if every step was finished.
C6_NoAttemptAfterStop ==
    [][ /\ stopRequested => ~(pc = "loop" /\ pc' = "observe")
        /\ (stopRequested' /\ result' = "completed") =>
              currentStepIndex' >= Len(currentPlan') ]_vars

(***************************************************************************)
(* Properties of the observation cache and of the task context.            *)
(***************************************************************************)

\* C7: observe() returns a stored list only if the address and the digest of
\* the page both equal the stored ones and the entry is no older than the TTL.
C7_ReuseOnlyIfMatch ==
    (obs.valid /\ obs.path \in {"lastUi", "domCache"}) =>
        (obs.urlMatch /\ obs.digestMatch /\ obs.fresh)

\* C8: a second observe() with the same address and digest within the TTL of
\* the first returns the very list object of the first and extracts nothing.
C8_IdempotentObserve ==
    (obs.valid /\ obs.repeated) => (obs.sameList /\ obs.path # "extract")

\* C9: when an agentic task starts the DOM cache has no entry and the error
\* history is empty, and no observe() returns a list stored by an earlier task.
C9_CachesResetBetweenTasks ==
    /\ (pc = "planning") => (domCache.elements = NullElems /\ errorHistory = <<>>)
    /\ obs.valid => obs.ret.task = obs.task

\* C10: the context is empty when an agentic task starts and empty again once
\* the task has completed; within a task it only grows.
C10_ContextCleared ==
    [][ /\ (pc' = "planning") => context' = EmptyContext
        /\ (pc' = "idle" /\ result' = "completed") => context' = EmptyContext
        /\ (pc \notin {"idle", "triage"}) =>
              /\ context.facts \subseteq context'.facts
              /\ context.lastUi.present => context'.lastUi.present ]_vars
\* C12: a step attempt that failed with an invalid-parameters or an
\* unsupported-action error is never followed by a plain retry of the step:
\* handleStepFailure hands it to recovery whatever the retry count.
StructuralErrors == {"invalid_parameters", "unsupported_action"}

C12_StructuralNotRetried ==
    [][ (pc = "failed" /\ error \in StructuralErrors) => pc' # "loop" ]_vars

(***************************************************************************)
(* Properties of act().                                                    *)
(***************************************************************************)
\* the parameters of a.type that the vocabulary requires are not all given
RequiredOmitted(a) ==
    LET P == a.parameters
        target == P \cap {"selector", "agent_id", "agentId"}
    IN CASE a.type = "goto" -> "url" \notin P
         [] a.type = "click" -> target = {} /\ "text" \notin P
         [] a.type = "type" -> target = {} \/ P \cap {"value", "text"} = {}
         [] a.type = "search" ->
                target = {} \/ P \cap {"value", "text", "query"} = {}
         [] a.type = "select" ->
                target = {} \/ P \cap {"value", "option", "text"} = {}
         [] a.type \in {"hover", "wait_for_element", "get_text"} -> target = {}
         [] a.type = "get_attribute" -> target = {} \/ "attribute" \notin P
         [] OTHER -> FALSE

\* C11: for every action type of the vocabulary, act() on an action that
\* omits a required parameter ends with an invalid-parameters error and has
\* sent no message to the tab.
C11_ValidationComplete ==
    (actResult.status # "none" /\ action.type \in ActionTypes
        /\ RequiredOmitted(action))
    => (actResult.status = "error" /\ actResult.kind = "invalid_parameters"
        /\ actResult.sent = 0)

\* a get_attribute without the attribute, which only the executor rejects
C11_Witness ==
    /\ action.type = "get_attribute"
    /\ action.parameters = {"selector"}
    /\ actResult.kind = "invalid_parameters"
    /\ actResult.sent = 0

(***************************************************************************)
(* Properties of the VERIFY stage.                                         *)
(***************************************************************************)
\* C13: after a goto with a target url, when the active tab's address has
\* the host of the target, the verification has success true and the
\* Decision Backend was not asked for it.
C13_NavigationShortCircuit ==
    (/\ verification.stage = "done"
     /\ decision.type = "goto"
     /\ decision.url # NoUrl
     /\ tabUrl # NoUrl
     /\ tabUrl.host = decision.url.host)
    => (verification.success /\ verification.backendCalls = 0)

\* the address after the action shows a search, or a video page
ShowsSearch == tabUrl.marks \cap {"search", "query", "q="} # {}

ShowsVideo == tabUrl.marks \cap {"/watch", "video", "v="} # {}

\* C32: verify() answers from the address alone, with success and without a
\* backend call, after a search or type whose address shows a search and
\* after a click whose address shows a video page; in every other case it
\* asks the Decision Backend once; a verification made without the backend
\* is never a failure.
C32_HeuristicsBeforeBackend ==
    (verification.stage = "done" /\ ~verification.autoVerified) =>
        /\ (decision.type \in {"search", "type"} /\ ShowsSearch)
              => (verification.success /\ verification.backendCalls = 0)
        /\ (decision.type = "click" /\ ShowsVideo)
              => (verification.success /\ verification.backendCalls = 0)
        /\ (~(decision.type \in {"search", "type"} /\ ShowsSearch)
              /\ ~(decision.type = "click" /\ ShowsVideo))
              => verification.backendCalls = 1
        /\ verification.backendCalls = 0 => verification.success

\* a click that led to an address with v= was verified without the backend
C32_Witness ==
    /\ verification.stage = "done"
    /\ decision.type = "click"
    /\ tabUrl.marks = {"v="}
    /\ verification.success
    /\ verification.backendCalls = 0

(***************************************************************************)
(* Properties of GeminiService.query.                                      *)
(***************************************************************************)
\* the request that was in flight is answered in this step
RequestAnswered == queryPc = "request"

\* the next candidate gets its first request, or the candidates are used up
MovesToNextCandidate ==
    IF candidate < numCandidates
    THEN /\ candidate' = candidate + 1
         /\ attempt' = 1
         /\ queryPc' = "request"
         /\ requests' = requests + 1
    ELSE /\ queryPc' = "done"
         /\ queryResult' = "models_unavailable"

\* C14: a model-not-found answer moves query to the next candidate in the
\* same step, without a wait and whatever attempts the candidate had left,
\* and the models-unavailable failure is raised only after the last
\* candidate.
C14_NotFoundFallsBack ==
    [][ /\ (RequestAnswered /\ signal' = "not_found")
            => (MovesToNextCandidate /\ waits' = waits)
        /\ (queryResult' = "models_unavailable")
            => candidate' = numCandidates ]_vars

\* not found on the first attempt of the first candidate: the second
\* candidate is asked at once
C14_Witness ==
    /\ signal = "not_found"
    /\ candidate = 2
    /\ attempt = 1
    /\ requests = 2
    /\ waits = 0
    /\ retries = geminiMaxRetries

\* C15: a 503 on the final attempt for a candidate moves to the next
\* candidate, or fails with the models-unavailable error after the last one;
\* the query fails outright exactly on an error other than 503 and
\* model-not-found on the final attempt.
C15_UnavailableOnFinalAttempt ==
    [][ /\ (RequestAnswered /\ attempt = retries
              /\ signal' = "service_unavailable")
            => MovesToNextCandidate
        /\ (RequestAnswered /\ attempt = retries
              /\ signal' \in {"other_error", "malformed"})
            => queryResult' = "failed_after_retries"
        /\ (queryResult' = "failed_after_retries"
              /\ queryResult # "failed_after_retries")
            => (attempt = retries
                /\ signal' \notin {"service_unavailable", "not_found", "ok"})
      ]_vars

\* every candidate answered 503 on its final attempt
C15_Witness ==
    /\ queryResult = "models_unavailable"
    /\ signal = "service_unavailable"
    /\ attempt = retries
    /\ requests = retries * numCandidates

\* C16: once a request was answered with a response that parseResponse
\* rejects, query sends no further request to the backend.
C16_MalformedNotRetried ==
    [][ signal = "malformed" => requests' = requests ]_vars

\* C31: query ends after a bounded number of requests whatever the backend
\* answers: the candidates are tried in list order, a candidate gets at most
\* `retries` requests and the query at most numCandidates * retries; the
\* models-unavailable error is thrown only when the last candidate is used
\* up; the request that query returns on is its last and its candidate is
\* the current model.
C31_QueryIsBounded ==
    /\ <>(queryPc = "done")
    /\ [](queryPc # "idle" =>
            /\ candidate \in 1..numCandidates
            /\ attempt \in 1..retries
            /\ requests <= (candidate - 1) * retries + attempt
            /\ requests <= numCandidates * retries
            /\ queryResult = "models_unavailable" =>
                  /\ candidate = numCandidates
                  /\ signal \in {"not_found", "service_unavailable"}
                  /\ signal = "service_unavailable" => attempt = retries
            /\ queryResult = "ok" => model = candidate /\ signal = "ok")
    /\ [][ /\ (queryPc # "idle" /\ requests' # requests) =>
               /\ requests' = requests + 1
               /\ \/ candidate' = candidate /\ attempt' = attempt + 1
                  \/ candidate' = candidate + 1 /\ attempt' = 1
           /\ (queryPc # "idle" /\ requests' = requests) =>
               candidate' = candidate /\ attempt' = attempt
           /\ queryPc = "done" => UNCHANGED queryVars ]_vars

\* the last request of the last candidate was answered with a 503 after
\* numCandidates * retries requests
C31_Witness ==
    /\ queryPc = "done"
    /\ queryResult = "models_unavailable"
    /\ numCandidates = MaxCandidates
    /\ retries = geminiMaxRetries
    /\ requests = numCandidates * retries

(***************************************************************************)
(* Properties of the ErrorHandler.                                         *)
(***************************************************************************)
\* the rows of the rule table for the attempts from 3 on, first match wins
RuleTable(message, a) ==
    CASE message \cap {"not found", "no such element"} # {} ->
             IF a = 3 THEN "reorient_agent" ELSE "ask_user_help"
      [] "timeout" \in message -> "skip_step"
      [] message \cap {"navigation", "navigate"} # {} -> "reorient_agent"
      [] message \cap {"permission", "access denied"} # {} -> "ask_user_help"
      [] OTHER -> IF a <= 4 THEN "alternative_action" ELSE "ask_user_help"

\* C33: when no backend is set, or the strategy query of the backend failed,
\* and the attempt number is at least 3, the strategy is the one of the rule
\* table: not found / no such element, then timeout, then navigation /
\* navigate, then permission / access denied, then the default by attempt.
C33_RuleTableFromAttemptThree ==
    (/\ strategy # NoStrategy
     /\ errorHistory # <<>>
     /\ errorHistory[1].attempt >= 3
     /\ ~geminiService \/ queryResult = "failed_after_retries")
    => strategy.type = RuleTable(errorHistory[1].error, errorHistory[1].attempt)

\* a timeout that also names a permission, at attempt 5 and after the
\* strategy query failed: the timeout row wins
C33_Witness ==
    /\ errorHistory # <<>>
    /\ errorHistory[1].error = {"timeout", "permission"}
    /\ errorHistory[1].attempt = 5
    /\ geminiService
    /\ queryResult = "failed_after_retries"
    /\ strategy.type = "skip_step"

\* the failure the handler was called with last
LastError == errorHistory[Len(errorHistory)]

\* C17: for every attempt number up to 2 the strategy is retry_step,
\* whatever the error message, the error history and the availability of a
\* backend, and no backend query is made for it.
C17_FirstTwoAttemptsRetry ==
    (errorHistory # <<>> /\ LastError.attempt <= 2)
    => (strategy.type = "retry_step" /\ strategy.backendCalls = 0)

\* the second failure of a step, with a permission error and a backend
C17_Witness ==
    /\ errorHistory # <<>>
    /\ LastError.attempt = 2
    /\ LastError.error = {"permission"}
    /\ geminiService
    /\ strategy.type = "retry_step"

\* C18: a failure whose message contains "permission" or "access denied" is
\* answered with ask_user_help at every attempt number.
C18_PermissionAsksUser ==
    (errorHistory # <<>>
        /\ LastError.error \cap {"permission", "access denied"} # {})
    => strategy.type = "ask_user_help"

\* C19: a reorientation that failed ends in a user-help request that
\* carries a question.
C19_ReorientFailureAsksUser ==
    recovery.reorientFailed
    => (recovery.action = "ask_user" /\ recovery.question)

\* C20: every failure of a step attempt in the orchestrator loop adds exactly
\* one entry to the error history, holding the step, the time, the context
\* as it is at the failure and the attempt count 1 + the earlier entries of
\* the same step.
C20_FailureRecorded ==
    [][ (pc = "failed" /\ pc' # "failed")
        => /\ Len(errorHistory') = Len(errorHistory) + 1
           /\ SubSeq(errorHistory', 1, Len(errorHistory)) = errorHistory
           /\ LET e == errorHistory'[Len(errorHistory')]
              IN /\ e.step = currentPlan[currentStepIndex + 1]
                 /\ e.timestamp = now
                 /\ e.context = context
                 /\ e.attempt = getAttemptCount(e.step) ]_vars

\* C21: an ask_user_help recovery carries a question that is not empty: the
\* one the backend supplied, or a text built from the failing step, the
\* error message and the attempt count.
C21_AskUserHasQuestion ==
    recovery.action = "ask_user"
    => /\ recovery.question
       /\ IF strategy.userQuestion
          THEN recovery.text.kind = "supplied"
          ELSE /\ recovery.text.kind = "generated"
               /\ recovery.text.step = LastError.step
               /\ recovery.text.error = LastError.error
               /\ recovery.text.attempt = LastError.attempt

\* the backend chose ask_user_help and supplied no question
C21_Witness ==
    /\ recovery.action = "ask_user"
    /\ strategy.backendCalls = 1
    /\ ~strategy.userQuestion
    /\ recovery.text.kind = "generated"

\* C22: every user prompt eventually settles: its promise is resolved by a
\* matching response, rejected with the timeout error once the timeout of
\* the request has elapsed, or rejected by cleanup; it never stays pending.
C22_PromptSettles ==
    /\ \A n \in 1..MaxPrompts :
          (Len(promises) >= n) ~> (Len(promises) >= n /\ promises[n].state # "pending")
    /\ [](\A n \in DOMAIN promises :
            /\ promises[n].state = "resolved" => promises[n].reason = "response"
            /\ promises[n].state = "rejected"
                  => promises[n].reason \in {"timeout", "cleanup"}
            /\ promises[n].reason = "timeout" => timers[n].remaining = 0)

C22_Witness ==
    \E n \in DOMAIN promises :
        /\ promises[n] = [state |-> "rejected", reason |-> "timeout"]
        /\ timers[n].remaining = 0

\* C23: pendingRequests and responseCallbacks have the same keys, the ids of
\* the prompts not yet settled, and getPendingRequestCount() is their number.
C23_TablesHoldOutstanding ==
    LET outstanding == {n \in DOMAIN promises : promises[n].state = "pending"}
    IN /\ DOMAIN pendingRequests = DOMAIN responseCallbacks
       /\ DOMAIN responseCallbacks = outstanding
       /\ getPendingRequestCount = Cardinality(outstanding)

\* C24: at most one Decision Backend call and at most one Action Executor
\* call are in flight on the agent instance, and at most one task is between
\* the initialisation of its state and its return, so that no two tasks
\* interleave their updates of currentPlan, currentStepIndex, retryCount
\* and context.
C24_OneTaskAtATime ==
    LET at(S) == {c \in DOMAIN calls : calls[c].pc \in S}
    IN /\ Cardinality(at(BackendAwaits)) <= 1
       /\ Cardinality(at(ExecutorAwaits)) <= 1
       /\ Cardinality(at(TaskAwaits)) <= 1

\* the task state a simple query is to leave alone, and the traces of a DOM
\* command
TaskState == <<originalGoal, context, currentPlan, currentStepIndex, retryCount>>

DomTraces == <<obs, domCache, attempts>>

\* C25: when triage classifies the goal as simple_query, processUserRequest
\* returns a direct answer with success true, generates no plan, issues no
\* DOM command and leaves originalGoal, context, currentPlan,
\* currentStepIndex and retryCount unchanged.
C25_SimpleQueryShortCircuit ==
    [][ /\ (pc = "triage" /\ pc' = "simple")
            => (UNCHANGED TaskState /\ UNCHANGED DomTraces)
        /\ pc = "simple"
            => /\ UNCHANGED TaskState
               /\ UNCHANGED DomTraces
               /\ pc' \in {"simple", "idle"}
               /\ pc' = "idle" => result' = "simple_answer" ]_vars

\* C25 as amended: the answer is returned with success true when the answer
\* query succeeds, and the error result when it throws; the rest as claimed.
C25_SimpleQueryShortCircuitOrError ==
    [][ /\ (pc = "triage" /\ pc' = "simple")
            => (UNCHANGED TaskState /\ UNCHANGED DomTraces)
        /\ pc = "simple"
            => /\ UNCHANGED TaskState
               /\ UNCHANGED DomTraces
               /\ pc' \in {"simple", "idle"}
               /\ pc' = "idle" => result' \in {"simple_answer", "error"} ]_vars

\* a simple answer given after an agentic task, whose state is still there
C25_Witness ==
    /\ pc = "idle"
    /\ result = "simple_answer"
    /\ originalGoal # 0
    /\ originalGoal < taskNo
    /\ context # EmptyContext

NamedBy(doc, ref) ==
    IF ref.kind # "string" THEN {}
    ELSE LET trimmed == trim(ref.s)
             norm == normalize(trimmed)
             xpath == IF trimmed # <<>> /\ trimmed[1] = "xpath:" THEN Tail(trimmed)
                      ELSE IF trimmed # <<>> /\ trimmed[1] \in {"//", "("} THEN trimmed
                      ELSE <<>>
         IN ({ i \in DOMAIN doc \ {documentElement, body} :
                \/ parseSelector(trimmed).valid /\ i \in querySelectorAll(doc, trimmed)
                \/ xpath # <<>> /\ evaluate(doc, xpath).el = i
                \/ <<doc[i].id>> = norm
                \/ <<doc[i].name>> = norm
                \/ <<doc[i].agentId>> = norm
                \/ <<doc[i].class>> = sanitize(norm) }
             \cup { resolveSynthetic(doc, trimmed).el }) \ {0}

\* the target a command names, and whether the page has it
TargetOf(m) ==
    IF m.type = "SCROLL" THEN { IF Truthy(m.selector) THEN m.selector ELSE m.agentId }
    ELSE { m.selector, m.agentId, m.agent_id, m.agentID }

TargetIsNull(doc, m) ==
    /\ \A ref \in TargetOf(m) : NamedBy(doc, ref) = {}
    /\ m.type # "SCROLL" => findElementByText(doc, m.text) = Returns(0) \/ Falsy(m.text)
    /\ m.type = "SCROLL" => \E ref \in TargetOf(m) : Truthy(ref)

\* C26: resolveElement returns null and throws nothing for a reference that
\* names no element of the page (empty, not a string, invalid CSS or XPath
\* included), and a command that names a target element (click, type,
\* search, select, scroll to an element, hover, get_text, get_attribute) is
\* answered with an error when its target resolves to null.
C26_NullTargetIsAnError ==
    (command.type \in TargetCommands /\ response # NoResponse) =>
        /\ \A ref \in TargetOf(command) :
              NamedBy(document, ref) = {} =>
                  resolveElement(document, ref) = Returns(0)
        /\ TargetIsNull(document, command) => response.status = "error"

\* C27: when the reference is a CSS selector that matches an element A other
\* than <html> and <body>, and a different element B has the normalized
\* reference as its id, name, data-agent-id or class, resolveElement returns
\* an element the selector matches.
C27_CssMatchWins ==
    LET trimmed == trim(reference.s)
        norm == normalize(trimmed)
        A == querySelectorAll(document, trimmed) \ {documentElement, body}
        B == { i \in DOMAIN document :
                 \/ <<document[i].id>> = norm
                 \/ <<document[i].name>> = norm
                 \/ <<document[i].agentId>> = norm
                 \/ <<document[i].class>> = sanitize(norm) }
    IN (/\ resolved # NotCalled
        /\ reference.kind = "string"
        /\ parseSelector(trimmed).valid
        /\ \E a \in A : B \ {a} # {})
       => resolved.status = "returned" /\ resolved.el \in A

\* the visible text inputs of the page
VisibleTextInputs ==
    { i \in DOMAIN document : /\ document[i].tag = "input"
                              /\ document[i].type = "text"
                              /\ document[i].visible }

InputText2 == Str(<<"input", "_", "text", "_", "2">>)

OnScreenBefore(i, j) ==
    \/ document[i].top < document[j].top - 10
    \/ /\ document[i].top <= document[j].top + 10
       /\ document[i].top >= document[j].top - 10
       /\ \/ document[i].left < document[j].left
          \/ document[i].left = document[j].left /\ i < j

PopupPresent ==
    \E i \in DOMAIN document :
        document[i].class \in {"modal", "modal-dialog"} /\ document[i].visible

\* C29: handle_popup is answered with success for every action value and
\* every page, and with popupFound false when the page shows no popup.
C29_HandlePopupNeverFails ==
    (/\ command.type \in {"HANDLE_POPUP", "EXECUTE_ENHANCED_ACTION", "handle_popup"}
     /\ response # NoResponse)
    => /\ response.status = "ok"
       /\ ~PopupPresent => response.popupFound = "false"

\* the condition of the wait holds on the page: the element is the one the
\* selector names, null when it names none
ConditionHolds ==
    elementMeetsCondition(document,
                          FirstOf(NamedBy(document, WaitSelector(command))),
                          WaitCondition(command))

\* a step in which the condition is polled
IsPoll ==
    \/ waiting.state = "idle" /\ waiting'.state # "idle"
          /\ Truthy(WaitSelector(command))
    \/ waiting'.elapsed # waiting.elapsed

\* C34: wait_for_element resolves at the first poll at which the condition
\* holds, rejects with the timeout error at the first poll after the
\* timeout has elapsed, and goes on polling otherwise; once it has resolved
\* or rejected no poll runs and the outcome stays.
C34_WaitSettlesOnce ==
    /\ [][ IsPoll =>
             IF ConditionHolds THEN waiting'.state = "resolved"
             ELSE IF waiting'.elapsed > WaitTimeout(command)
             THEN waiting'.state = "rejected" /\ waiting'.error = "timeout"
             ELSE waiting'.state = "polling" ]_vars
    /\ [][ waiting.state \in {"resolved", "rejected"} => waiting' = waiting ]_vars
    /\ [](waiting.state \in {"resolved", "rejected"} => waiting.interval # "armed")

(***************************************************************************)
(* Properties of WebAutomation.                                            *)
(***************************************************************************)
\* C35: goto reports success only when, after the address change, the wait
\* for the page load completed successfully.
C35_SuccessAfterLoad ==
    (navigation.pc = "done" /\ navigation.result = "success")
    => (navigation.addressChanged /\ navigation.loadComplete = TRUE)

C37_IdleIsNotExecuting ==
    (calls # <<>> /\ \A c \in DOMAIN calls : calls[c].pc = "done")
    => ~isExecuting

\* C38: whenever the agent's processUserRequest returned a result with
\* success false, the reply to PROCESS_COMMAND has success false.
C38_ReplyFollowsResult ==
    \A c \in DOMAIN calls :
        (calls[c].pc = "done" /\ ~ResultSuccess(calls[c].result))
        => (calls[c].reply.sent /\ ~calls[c].reply.success)

(***************************************************************************)
(* Properties of the agent ids.                                            *)
(***************************************************************************)
\* an id of the form tag_N or input_type_N
IsPositionalId(id) ==
    \/ Len(id) = 3 /\ IsWord(id[1]) /\ id[2] = "_" /\ IsNumber(id[3])
    \/ Len(id) = 5 /\ id[1] = "input" /\ id[2] = "_" /\ IsWord(id[3])
       /\ id[4] = "_" /\ IsNumber(id[5])

\* C39: an element to which the analyzer gave a positional id is the element
\* that resolveElement returns for that id on the unchanged page.
C39_AgentIdRoundTrip ==
    (analyzed.state = "picked" /\ resolved # NotCalled
        /\ IsPositionalId(analyzed.ids[analyzed.picked]))
    => resolved = Returns(analyzed.elements[analyzed.picked])

(***************************************************************************)
(* Properties of the settlement of user prompts.                           *)
(***************************************************************************)
\* C40: a prompt is settled at most once: once its promise is settled its
\* callback is gone and its timer is dead, so no timeout fires for an
\* answered prompt, the promise never changes again, and a response that is
\* late, duplicate, unknown or without request id changes neither
\* pendingRequests nor responseCallbacks.
C40_SettledAtMostOnce ==
    /\ [](\A n \in DOMAIN promises :
            promises[n].state # "pending"
            => /\ n \notin DOMAIN responseCallbacks
               /\ ~timers[n].live)
    /\ [][ /\ \A n \in DOMAIN promises :
                 promises[n].state # "pending" => promises'[n] = promises[n]
           /\ \A requestId \in 0..MaxPrompts :
                 (/\ handleUserResponse(requestId)
                  /\ \/ requestId = 0
                     \/ requestId \notin DOMAIN promises
                     \/ promises[requestId].state # "pending")
                 => UNCHANGED <<pendingRequests, responseCallbacks, promises,
                                timers>> ]_vars

\* the first prompt timed out, the second was answered, and a response that
\* came after that was ignored
C40_Witness ==
    /\ Len(promises) >= 2
    /\ promises[1] = [state |-> "rejected", reason |-> "timeout"]
    /\ promises[2] = [state |-> "resolved", reason |-> "response"]
    /\ uiLog = "unknown request"

====
